---- MODULE Spec2Model ----
(***************************************************************************)
(* A model of the martian pipeline runtime core:                           *)
(*   - the pipestance (node states, frontier, GetState, LoadMetadata,      *)
(*     StepNodes, KillWithMessage),                                        *)
(*   - the pipestance lock file (Lock / Unlock / HandleSignal),            *)
(*   - the asynchronous queue probe (CheckHeartbeats / queryQueue),        *)
(*   - Immortalize / ZipMetadata,                                          *)
(*   - the include resolver (getIncludes / checkIncludes),                 *)
(*   - the compiler's pass sequence (Ast.compile).                         *)
(* Each part has its own specification over the shared variables; the      *)
(* variables a specification does not use keep their initial value.        *)
(***************************************************************************)
EXTENDS Integers, Sequences, FiniteSets, TLC

VARIABLES
    \* ---- pipestance nodes
    state,          \* node.state: the in-memory state of every node
    meta,           \* the state each node's on-disk metadata yields
    frontier,       \* TopNode.frontierNodes: the nodes the scheduler visits
    killed,         \* nodes marked with a kill message
    jobs,           \* number of jobs submitted so far
    jobIds,         \* nodes whose metadata holds a non-empty JobId file
    stateResult,    \* value returned by the last Pipestance.GetState call
    reattached,     \* "no" | "complete" | "other": what LoadMetadata found
    \* ---- lock file
    lockFile,       \* the Lock metadata file exists in the pipestance dir
    lpc,            \* per controller: position inside Pipestance.Lock
    lockResult,     \* per controller: "ok" while it holds the lock it took,
                    \* "locked" after a refused Lock call, else "none"
    handlers,       \* controllers registered as signal handlers
    \* ---- queue probe
    now,            \* wall clock, in minutes
    queueCheckActive,
    lastQueueCheck,
    hasQueueCheck,  \* JobManager.hasQueueCheck()
    qpc,            \* per caller: position inside CheckHeartbeats/queryQueue
    probes,         \* the probe goroutines that exist, with their captured variables
    checkQueueCalls,\* history: one record per checkQueue invocation
    notRunning,     \* nodes whose metadata got the not-running failure
    \* ---- immortalize
    psFiles,        \* artifacts present in the pipestance metadata dir
    nodeFiles,      \* the nodes' metadata files are still on disk
    configZip,      \* rt.Config.Zip
    artifactWrites, \* history: completed writes per artifact
    zipAttempts,    \* history: number of CreateZip calls
    immCalls,       \* history: number of Immortalize calls
    immResult,      \* result of the last Immortalize call
    \* ---- include resolver
    inc,            \* per file: its include directives, in order
    bad,            \* files that cannot be read or do not parse
    phase,          \* "edit" | "done"
    parseResult,    \* "none" | "nil" | "error" | "overflow"
    parseErrs,      \* the flattened error list returned
    parsed,         \* the files handed to yaccParse, in order
    \* ---- compiler passes
    cpc,            \* next pass of Ast.compile, or "done"
    passErr,        \* per pass: whether it returns an error
    ran,            \* history: the passes run, in order
    compileResult,  \* "none" | "nil" | the failing pass
    \* ---- scheduler and recovery calls
    local,          \* node.local: the node's jobs always run locally
    stepResult,     \* what the StepNodes call just made did and returned
    killIssued,     \* history: KillWithMessage ran on the locked pipestance
    resetResult,    \* history: what the last Reset / RestartRunningNodes did:
                    \* op, jobMode, the nodes visited for a reset in order,
                    \* the nodes whose reset fails, the value returned
    madeDirs,       \* the nodes whose directories the LoadMetadata call
                    \* just made created with node.mkdirs()
    \* ---- transient-error classification
    transient,      \* per node: node.isErrorTransient()'s flag
    logLine,        \* per node: node.isErrorTransient()'s log line
    transResult,    \* value returned by the last IsErrorTransient call
    \* ---- construction
    callee,         \* the top-level call statement (id, decId) and its callee
                    \* (kind, the stage's out parameters)
    calls,          \* the call statements of the callee when it is a pipeline
    bpc,            \* position inside NewPipestance
    pipeline,       \* the local variable pipeline: its calls and returns
    subnodes,       \* self.node.subnodes: the instance identifiers registered
    preflightNodes, \* the local slice preflightNodes
    prenodes,       \* per child: the prerequisites setPrenode gave it
    retbindings,    \* self.node.retbindings with the node each one resolved to
    constructed,    \* history: the calls handed to a child constructor, in order
    buildResult,    \* what NewPipestance returned: (self, err), or a panic
    \* ---- reattach: job mode
    jobModeFile,    \* the pipestance's JobMode metadata file: exists, content
    configJobMode,  \* rt.Config.JobMode
    verifyResult,   \* value returned by the last VerifyJobMode call
    \* ---- onfinish hook
    hookIn,         \* rt.Config.OnFinishHandler, whether exec.LookPath finds
                    \* it, and the error paths GetFatalError reports
    hookCalls,      \* history: the argument lists the handler was run with
    hookResult,     \* how the OnFinishHook call ended
    \* ---- stage construction
    stageIn,        \* NewStagestance's callee: kind, language, retain list
    fileArgs,       \* per fork of the stage node: fork.fileArgs
    stageResult,    \* what NewStagestance returned
    \* ---- more history
    restartResult,  \* what the last RestartLocalJobs call did and returned
    jobManagers,    \* whether rt.JobManager is another object than
                    \* rt.LocalJobManager, and which refreshResources fail
    caller,         \* the controller whose Pipestance object the pipestance
                    \* operations are called on
    lockStamp,      \* the time written into the Lock file: its writer
    probeResult     \* what the probe goroutine that just returned was told
                    \* by checkQueue and what it wrote

runVars   == <<state, meta, frontier, killed, jobs, jobIds, stateResult, reattached>>
lockVars  == <<lockFile, lpc, lockResult, handlers>>
queueVars == <<now, queueCheckActive, lastQueueCheck, hasQueueCheck, qpc, probes,
               checkQueueCalls, notRunning>>
immVars   == <<psFiles, nodeFiles, configZip, artifactWrites, zipAttempts,
               immCalls, immResult>>
incVars   == <<inc, bad, phase, parseResult, parseErrs, parsed>>
compVars  == <<cpc, passErr, ran, compileResult>>
callVars  == <<local, stepResult, killIssued, resetResult, madeDirs>>
transVars == <<transient, logLine, transResult>>
buildVars == <<callee, calls, bpc, pipeline, subnodes, preflightNodes, prenodes,
               retbindings, constructed, buildResult>>
auxVars   == <<jobModeFile, configJobMode, verifyResult, hookIn, hookCalls,
               hookResult, stageIn, fileArgs, stageResult, restartResult,
               jobManagers,
                   caller>>
vars      == <<runVars, lockVars, queueVars, immVars, incVars, compVars,
               callVars, transVars, buildVars, auxVars, lockStamp, probeResult>>

-----------------------------------------------------------------------------
(* Bounds of the model.                                                    *)

NumNodes == 2
MaxJobs == 2
NumControllers == 4
NumCallers == 2
MaxTime == 11
MaxImmCalls == 3
NumFiles == 3
MaxDirectives == 5
MaxCalls == 3
MaxForks == 2

Nodes == 1..NumNodes
Controllers == 1..NumControllers
Callers == 1..NumCallers
Files == 1..NumFiles
\* The controller that owns the in-memory pipestance of the runtime parts.
Self == 1

-----------------------------------------------------------------------------
(* MetadataState                                                           *)

Waiting == "waiting"
Ready == "ready"
Queued == "queued"
Running == "running"
Complete == "complete"
Failed == "failed"
DisabledState == "disabled"
ForkWaiting == "waiting_for_fork"

MetadataStates ==
    {Waiting, Ready, Queued, Running, Complete, Failed, DisabledState, ForkWaiting}

-----------------------------------------------------------------------------
(* Pipestance: nodes and state aggregation.                                *)

\* Pipestance.allNodes(): the root node and all its descendants.
allNodes == Nodes

\* Node.getFrontierNodes(): the content of the top node's frontier map.
getFrontierNodes == frontier

\* Pipestance.readOnly(): the Lock file does not exist.
readOnlyNever == FALSE

\* func (self *Pipestance) readOnly() bool { return !self.metadata.exists(Lock) }
readOnly == ~lockFile

\* Node.getState(): the node's state computed from its metadata alone.
getState(n) == meta[n]

\* Prerequisite edges: the nodes form a chain, node n waits for node n-1.
Prenodes(n) == IF n > 1 THEN {n - 1} ELSE {}

\* stepResult outside a StepNodes call.
NoStep == [kind |-> "none", order |-> <<>>, ret |-> FALSE, events |-> <<>>,
           logged |-> {}]

GetStateRunningFirst ==
    IF \E n \in getFrontierNodes : state[n] = Running THEN Running
    ELSE IF \E n \in getFrontierNodes : state[n] = Failed THEN Failed
    ELSE IF ~(\E n \in allNodes : state[n] # DisabledState) THEN DisabledState
    ELSE IF ~(\E n \in allNodes : state[n] # Complete /\ state[n] # DisabledState)
         THEN Complete
    ELSE ForkWaiting

\* Pipestance.GetState: the first loop returns Failed at the first Failed
\* frontier node, the second Running at the first Running one; then the two
\* "every" flags are computed over all nodes.
GetState ==
    IF \E n \in getFrontierNodes : state[n] = Failed THEN Failed
    ELSE IF \E n \in getFrontierNodes : state[n] = Running THEN Running
    ELSE IF ~(\E n \in allNodes : state[n] # DisabledState) THEN DisabledState
    ELSE IF ~(\E n \in allNodes : state[n] # Complete /\ state[n] # DisabledState)
         THEN Complete
    ELSE ForkWaiting

LoadedStateStale(n) == state[n]

\* LoadMetadata, second loop: node.state = node.getState().
LoadedState(n) == getState(n)

MkdirsNodesUnguarded(st) == {n \in allNodes : st[n] = Running}

\* if node.state == Running && !self.readOnly() { node.mkdirs() }
MkdirsNodes(st) == {n \in allNodes : st[n] = Running /\ ~readOnly}

\* Pipestance.LoadMetadata: every node reloads its metadata (which may put it
\* on the frontier), then every node's state is recomputed from metadata and
\* the Running nodes of a locked pipestance get their directories created.
LoadMetadata ==
    /\ \E f \in SUBSET Nodes : frontier' = f
    /\ state' = [n \in Nodes |-> LoadedState(n)]
    /\ madeDirs' = MkdirsNodes([n \in Nodes |-> LoadedState(n)])
    /\ reattached' = IF \A n \in Nodes : meta[n] = Complete
                     THEN "complete" ELSE "other"
    /\ stateResult' = "none"
    /\ UNCHANGED <<meta, killed, jobs, jobIds>>
    /\ UNCHANGED <<lockVars, queueVars, immVars, incVars, compVars, transVars, buildVars,
                   auxVars, lockStamp, probeResult>>
    /\ stepResult' = NoStep
    /\ UNCHANGED <<local, killIssued, resetResult>>

\* A call of Pipestance.GetState; stateResult keeps the value returned until
\* the scheduler next changes node states or the frontier.
GetStateCall ==
    /\ stateResult' = GetState
    /\ UNCHANGED <<state, meta, frontier, killed, jobs, jobIds, reattached>>
    /\ UNCHANGED <<lockVars, queueVars, immVars, incVars, compVars, transVars, buildVars,
                   auxVars, lockStamp, probeResult>>
    /\ stepResult' = NoStep
    /\ madeDirs' = {}
    /\ UNCHANGED <<local, killIssued, resetResult>>

KillFrontierNone == killed

\* Node.kill(message) on every frontier node.
KillFrontier == killed \cup getFrontierNodes

\* Pipestance.KillWithMessage / Kill.
KillWithMessage ==
    /\ killed' = IF readOnly THEN killed ELSE KillFrontier
    /\ UNCHANGED <<state, meta, frontier, jobs, jobIds, stateResult, reattached>>
    /\ UNCHANGED <<lockVars, queueVars, immVars, incVars, compVars, transVars, buildVars,
                   auxVars, lockStamp, probeResult>>
    /\ stepResult' = NoStep
    /\ madeDirs' = {}
    /\ killIssued' = (killIssued \/ ~readOnly)
    /\ UNCHANGED <<local, resetResult>>

\* Node.step on the scheduler's working copy s = [state, meta, jobs, jobIds]:
\* a killed node does nothing; Waiting becomes Ready once every prerequisite
\* is Complete or DisabledState; Ready submits a job when resources can be
\* reserved (recording its JobId) and becomes Queued; otherwise the node's
\* state follows its metadata.
stepNode(s, n) ==
    IF n \in killed THEN s
    ELSE IF s.meta[n] = Waiting
            /\ \A p \in Prenodes(n) : s.state[p] \in {Complete, DisabledState}
    THEN [s EXCEPT !.meta[n] = Ready, !.state[n] = Ready]
    ELSE IF s.meta[n] = Ready /\ s.jobs < MaxJobs
    THEN [s EXCEPT !.meta[n] = Queued, !.state[n] = Queued,
                   !.jobs = @ + 1, !.jobIds = @ \cup {n}]
    ELSE [s EXCEPT !.state[n] = s.meta[n]]

StepsNodeShortCircuit(had) == ~had

\* hadProgress = node.step() || hadProgress: node.step() is the left operand,
\* so it is called whatever hadProgress holds.
StepsNode(had) == TRUE

RECURSIVE stepAll(_, _)
\* for _, node := range getFrontierNodes() { hadProgress = node.step() || ... }
\* s.had is hadProgress, s.stepped the nodes whose step was called; a step
\* reports progress when it changed the node's state.
stepAll(order, s) ==
    IF order = <<>> THEN s
    ELSE LET n  == Head(order)
             s1 == IF StepsNode(s.had)
                   THEN [stepNode(s, n) EXCEPT !.stepped = Append(@, n),
                                               !.events = Append(@, "step")]
                   ELSE s
         IN stepAll(Tail(order),
                    [s1 EXCEPT !.had = (s1.state[n] # s.state[n]) \/ s.had])

\* The orders in which a range over the frontier map may visit its nodes.
Orders(S) ==
    {o \in [1..Cardinality(S) -> S] : \A i, j \in DOMAIN o : i # j => o[i] # o[j]}

\* What a StepNodes call leaves in stepResult: how it ended, the nodes
\* stepped in order, the value returned, the refreshResources and step calls
\* in the order they were made, and the refreshes whose error was logged.
StepRecord(kind, order, ret, events, logged) ==
    [kind |-> kind, order |-> order, ret |-> ret, events |-> events,
     logged |-> logged]

RefreshesClusterAlways == TRUE

\* if self.node.rt.LocalJobManager != self.node.rt.JobManager
RefreshesCluster == jobManagers.distinct

\* The refreshResources calls of one StepNodes call, in order.
Refreshes == <<"local">> \o (IF RefreshesCluster THEN <<"cluster">> ELSE <<>>)

\* The refreshes that return an error, which StepNodes logs.
RefreshErrors ==
    {Refreshes[i] : i \in {j \in DOMAIN Refreshes :
                              \/ Refreshes[j] = "local" /\ jobManagers.localErr
                              \/ Refreshes[j] = "cluster" /\ jobManagers.clusterErr}}

\* Pipestance.StepNodes.
StepNodes ==
    /\ IF readOnly
       THEN /\ stepResult' = StepRecord("readonly", <<>>, FALSE, <<>>, {})
            /\ UNCHANGED <<state, meta, frontier, killed, jobs, jobIds, stateResult,
                           killIssued>>
       ELSE \E diskSpaceError \in BOOLEAN :
            IF diskSpaceError
            THEN /\ killed' = KillFrontier
                 /\ killIssued' = TRUE
                 /\ stepResult' = StepRecord("disk", <<>>, FALSE, <<>>, {})
                 /\ UNCHANGED <<state, meta, frontier, jobs, jobIds, stateResult>>
            ELSE \E order \in Orders(getFrontierNodes) :
                 LET s == stepAll(order, [state |-> state, meta |-> meta,
                                          jobs |-> jobs, jobIds |-> jobIds,
                                          had |-> FALSE, stepped |-> <<>>,
                                          events |-> Refreshes])
                 IN /\ state' = s.state
                    /\ meta' = s.meta
                    /\ jobs' = s.jobs
                    /\ jobIds' = s.jobIds
                    /\ \E f \in SUBSET Nodes : frontier' = f
                    /\ stateResult' = "none"
                    /\ stepResult' = StepRecord("stepped", s.stepped, s.had,
                                                s.events, RefreshErrors)
                    /\ UNCHANGED <<killed, killIssued>>
    /\ madeDirs' = {}
    /\ UNCHANGED <<reattached, local, resetResult>>
    /\ UNCHANGED <<lockVars, queueVars, immVars, incVars, compVars, transVars, buildVars,
                   auxVars, lockStamp, probeResult>>

\* restartResult before any RestartLocalJobs call.
NoRestart == [mode |-> "none", order |-> <<>>, calls |-> <<>>, failQ |-> {},
              failL |-> {}, ret |-> "none", seq |-> 0]

\* probeResult outside the return of a probe.
NoProbe == [jobsIn |-> {}, queued |-> {}, written |-> {}, readOnly |-> FALSE,
            returned |-> FALSE]

\* resetResult before any Reset or RestartRunningNodes call.
NoReset == [op |-> "none", mode |-> "none", order |-> <<>>, failing |-> {},
            ret |-> "none", seq |-> 0]

\* The job modes: local, or a cluster mode.
JobModes == {"local", "sge"}

\* Node.reset on the working copy s: the node's metadata is cleared and the
\* node is back in Waiting, without a job.
resetNode(s, n) ==
    [s EXCEPT !.state[n] = Waiting, !.meta[n] = Waiting, !.jobIds = @ \ {n}]

RECURSIVE resetAll(_, _, _)
\* for _, node := range ... { if err := node.reset(); err != nil { return err } }
resetAll(order, s, failing) ==
    IF order = <<>> THEN s
    ELSE IF Head(order) \in failing THEN [s EXCEPT !.ret = "error"]
    ELSE resetAll(Tail(order), resetNode(s, Head(order)), failing)

RECURSIVE Ascending(_)
\* The nodes of S in the order of the allNodes slice.
Ascending(S) ==
    IF S = {} THEN <<>>
    ELSE LET n == CHOOSE x \in S : \A y \in S : x <= y
         IN <<n>> \o Ascending(S \ {n})

IsLocalOrphanAnyMode(st, n, jobMode) == st[n] = Running

\* node.state == Running, and jobMode == "local" || node.local
IsLocalOrphan(st, n, jobMode) ==
    st[n] = Running /\ (jobMode = "local" \/ local[n])

\* Pipestance.RestartRunningNodes(jobMode): refuse when read-only; reload the
\* metadata; collect the Running frontier nodes that are local; reset them
\* until one reset fails.
RestartRunningNodes(jobMode) ==
    /\ IF readOnly
       THEN /\ resetResult' = [op |-> "Restart", mode |-> jobMode, order |-> <<>>,
                               failing |-> {}, ret |-> "readonly",
                               seq |-> 1 - resetResult.seq]
            /\ madeDirs' = {}
            /\ UNCHANGED <<state, meta, frontier, jobIds, stateResult, reattached>>
       ELSE \E f \in SUBSET Nodes, failing \in SUBSET Nodes :
            LET loaded == [n \in Nodes |-> LoadedState(n)]
                sel    == {n \in f : IsLocalOrphan(loaded, n, jobMode)}
            IN \E order \in Orders(sel) :
               LET s == resetAll(order, [state |-> loaded, meta |-> meta,
                                         jobIds |-> jobIds, ret |-> "nil"], failing)
               IN /\ state' = s.state
                  /\ meta' = s.meta
                  /\ jobIds' = s.jobIds
                  /\ frontier' = f
                  /\ madeDirs' = MkdirsNodes(loaded)
                  /\ reattached' = IF \A n \in Nodes : meta[n] = Complete
                                   THEN "complete" ELSE "other"
                  /\ stateResult' = "none"
                  /\ resetResult' = [op |-> "Restart", mode |-> jobMode,
                                     order |-> order, failing |-> failing,
                                     ret |-> s.ret, seq |-> 1 - resetResult.seq]
    /\ stepResult' = NoStep
    /\ UNCHANGED <<killed, jobs, local, killIssued>>
    /\ UNCHANGED <<lockVars, queueVars, immVars, incVars, compVars, transVars, buildVars,
                   auxVars, lockStamp, probeResult>>

NeedsResetNotComplete(st, n) == st[n] # Complete

\* if node.state == Failed
NeedsReset(st, n) == st[n] = Failed

\* Pipestance.Reset: refuse when read-only; reset every Failed node of
\* allNodes in order until one reset fails.
Reset ==
    /\ IF readOnly
       THEN /\ resetResult' = [op |-> "Reset", mode |-> "none", order |-> <<>>,
                               failing |-> {}, ret |-> "readonly",
                               seq |-> 1 - resetResult.seq]
            /\ UNCHANGED <<state, meta, jobIds, stateResult>>
       ELSE \E failing \in SUBSET Nodes :
            LET order == Ascending({n \in allNodes : NeedsReset(state, n)})
                s == resetAll(order, [state |-> state, meta |-> meta,
                                      jobIds |-> jobIds, ret |-> "nil"], failing)
            IN /\ state' = s.state
               /\ meta' = s.meta
               /\ jobIds' = s.jobIds
               /\ stateResult' = "none"
               /\ resetResult' = [op |-> "Reset", mode |-> "none", order |-> order,
                                  failing |-> failing, ret |-> s.ret,
                                  seq |-> 1 - resetResult.seq]
    /\ stepResult' = NoStep
    /\ madeDirs' = {}
    /\ UNCHANGED <<frontier, killed, jobs, reattached, local, killIssued>>
    /\ UNCHANGED <<lockVars, queueVars, immVars, incVars, compVars, transVars, buildVars,
                   auxVars, lockStamp, probeResult>>

\* The job manager reports a queued job as started.
JobStarts(n) ==
    /\ meta[n] = Queued
    /\ meta' = [meta EXCEPT ![n] = Running]
    /\ UNCHANGED <<state, frontier, killed, jobs, jobIds, stateResult, reattached>>
    /\ UNCHANGED <<lockVars, queueVars, immVars, incVars, compVars, transVars, buildVars,
                   auxVars, lockStamp, probeResult>>
    /\ stepResult' = NoStep
    /\ madeDirs' = {}
    /\ UNCHANGED <<local, killIssued, resetResult>>

\* The stage process writes its Complete or Errors file.
JobEnds(n) ==
    /\ meta[n] = Running
    /\ \E st \in {Complete, Failed} : meta' = [meta EXCEPT ![n] = st]
    /\ UNCHANGED <<state, frontier, killed, jobs, jobIds, stateResult, reattached>>
    /\ UNCHANGED <<lockVars, queueVars, immVars, incVars, compVars, transVars, buildVars,
                   auxVars, lockStamp, probeResult>>
    /\ stepResult' = NoStep
    /\ madeDirs' = {}
    /\ UNCHANGED <<local, killIssued, resetResult>>

\* Node.restartLocallyQueuedJobs: a locally queued job whose bookkeeping is
\* lost is put back for resubmission (requeued); the node's state field may
\* be recomputed on the way (refreshed).
restartLocallyQueuedJobs(s, n, requeued, refreshed) ==
    IF n \in requeued
    THEN [s EXCEPT !.meta[n] = Ready,
                   !.jobIds = @ \ {n},
                   !.state[n] = IF n \in refreshed THEN Ready ELSE @]
    ELSE s

\* Node.restartLocalJobs: the node's local jobs are started again.
restartLocalJobs(s, n) == [s EXCEPT !.meta[n] = Ready, !.jobIds = @ \ {n}]

NeedsQueuedRestartAny(st, n) == TRUE

\* if node.state == Running { node.restartLocallyQueuedJobs() }
NeedsQueuedRestart(st, n) == st[n] = Running

RECURSIVE restartLoop(_, _, _, _)
\* The loop of RestartLocalJobs over the frontier nodes in the given order;
\* s.calls are the calls made, s.ret the value returned so far.  in holds
\* the job mode and the outcomes of the calls.
restartLoop(order, s, jobMode, in) ==
    IF order = <<>> \/ s.ret = "error" THEN s
    ELSE LET n  == Head(order)
             q  == NeedsQueuedRestart(s.state, n)
             s1 == IF ~q THEN s
                   ELSE IF n \in in.failQ
                   THEN [s EXCEPT !.calls = Append(@, [kind |-> "queued", node |-> n]),
                                  !.ret = "error"]
                   ELSE [restartLocallyQueuedJobs(s, n, in.requeued, in.refreshed)
                           EXCEPT !.calls = Append(@, [kind |-> "queued", node |-> n])]
             l  == s1.ret # "error" /\ IsLocalOrphan(s1.state, n, jobMode)
             s2 == IF ~l THEN s1
                   ELSE IF n \in in.failL
                   THEN [s1 EXCEPT !.calls = Append(@, [kind |-> "local", node |-> n]),
                                   !.ret = "error"]
                   ELSE [restartLocalJobs(s1, n)
                           EXCEPT !.calls = Append(@, [kind |-> "local", node |-> n])]
         IN restartLoop(Tail(order), s2, jobMode, in)

\* Pipestance.RestartLocalJobs(jobMode).
RestartLocalJobs(jobMode) ==
    /\ IF readOnly
       THEN /\ restartResult' = [mode |-> jobMode, order |-> <<>>, calls |-> <<>>,
                                 failQ |-> {}, failL |-> {}, ret |-> "readonly",
                                 seq |-> 1 - restartResult.seq]
            /\ UNCHANGED <<state, meta, jobIds>>
       ELSE \E order \in Orders(getFrontierNodes) :
            \E failQ, failL, requeued \in
                 SUBSET {n \in getFrontierNodes : state[n] = Running} :
            \E refreshed \in SUBSET requeued :
              \* the traversal ends at the first failing call: one is enough
              /\ Cardinality(failQ) + Cardinality(failL) <= 1
              /\ LET s == restartLoop(order,
                                      [state |-> state, meta |-> meta,
                                       jobIds |-> jobIds, calls |-> <<>>,
                                       ret |-> "nil"],
                                      jobMode,
                                      [failQ |-> failQ, failL |-> failL,
                                       requeued |-> requeued,
                                       refreshed |-> refreshed])
                 IN /\ state' = s.state
                    /\ meta' = s.meta
                    /\ jobIds' = s.jobIds
                    /\ restartResult' = [mode |-> jobMode, order |-> order,
                                         calls |-> s.calls, failQ |-> failQ,
                                         failL |-> failL, ret |-> s.ret,
                                         seq |-> 1 - restartResult.seq]
    /\ UNCHANGED <<frontier, killed, jobs, stateResult, reattached>>
    /\ UNCHANGED <<jobModeFile, configJobMode, verifyResult, hookIn, hookCalls,
                   hookResult, stageIn, fileArgs, stageResult, jobManagers,
                   caller>>
    /\ UNCHANGED <<lockVars, queueVars, immVars, incVars, compVars, callVars,
                   transVars, buildVars, lockStamp, probeResult>>

-----------------------------------------------------------------------------
(* The lock file.                                                          *)

LockRefusedNever == FALSE

\* if self.metadata.exists(Lock) { return &PipestanceLockedError{...} }
LockRefused == lockFile

\* Pipestance.Lock, first half: loadCache() and the exists(Lock) test.
LockCheck(c) ==
    /\ lpc[c] = "idle"
    /\ lockResult[c] # "ok"
    /\ IF LockRefused
       THEN /\ lockResult' = [lockResult EXCEPT ![c] = "locked"]
            /\ UNCHANGED lpc
       ELSE /\ lpc' = [lpc EXCEPT ![c] = "write"]
            /\ lockResult' = [lockResult EXCEPT ![c] = "none"]
    /\ UNCHANGED <<lockFile, handlers>>
    /\ UNCHANGED <<runVars, queueVars, immVars, incVars, compVars, transVars, buildVars,
                   auxVars, lockStamp, probeResult>>
    /\ stepResult' = NoStep
    /\ madeDirs' = {}
    /\ UNCHANGED <<local, killIssued, resetResult>>

\* Pipestance.Lock, second half: RegisterSignalHandler, WriteTime(Lock),
\* return nil.
LockWrite(c) ==
    /\ lpc[c] = "write"
    /\ handlers' = handlers \cup {c}
    /\ lockFile' = TRUE
    /\ lockStamp' = c
    /\ lockResult' = [lockResult EXCEPT ![c] = "ok"]
    /\ lpc' = [lpc EXCEPT ![c] = "idle"]
    /\ UNCHANGED <<runVars, queueVars, immVars, incVars, compVars, transVars, buildVars,
                   auxVars, probeResult>>
    /\ stepResult' = NoStep
    /\ madeDirs' = {}
    /\ UNCHANGED <<local, killIssued, resetResult>>

unlockNoop == UNCHANGED <<lockFile, lockStamp>>

\* Pipestance.unlock: metadata.remove(Lock).
unlock == lockFile' = FALSE /\ lockStamp' = 0

\* Pipestance.Unlock.
Unlock(c) ==
    /\ lpc[c] = "idle"
    /\ lockResult[c] = "ok"
    /\ unlock
    /\ handlers' = handlers \ {c}
    /\ lockResult' = [lockResult EXCEPT ![c] = "none"]
    /\ UNCHANGED lpc
    /\ UNCHANGED <<runVars, queueVars, immVars, incVars, compVars, transVars, buildVars,
                   auxVars, probeResult>>
    /\ stepResult' = NoStep
    /\ madeDirs' = {}
    /\ UNCHANGED <<local, killIssued, resetResult>>

\* Pipestance.HandleSignal, called for a registered handler.
HandleSignal(c) ==
    /\ c \in handlers
    /\ lpc[c] = "idle"
    /\ unlock
    /\ lockResult' = [lockResult EXCEPT ![c] = "none"]
    /\ UNCHANGED <<lpc, handlers>>
    /\ UNCHANGED <<runVars, queueVars, immVars, incVars, compVars, transVars, buildVars,
                   auxVars, probeResult>>
    /\ stepResult' = NoStep
    /\ madeDirs' = {}
    /\ UNCHANGED <<local, killIssued, resetResult>>

-----------------------------------------------------------------------------
(* The queue probe.                                                        *)

\* QUEUE_CHECK_LIMIT := 5 * time.Minute
QUEUE_CHECK_LIMIT == 5

\* The zero time.Time of a new Pipestance lies further in the past than
\* any limit.
ZeroTime == 0 - (QUEUE_CHECK_LIMIT + 1)

\* time.Since(self.lastQueueCheck)
SinceLastQueueCheck == now - lastQueueCheck

QueueCheckBlockedNoTime == queueCheckActive

QueueCheckBlockedNoFlag == SinceLastQueueCheck < QUEUE_CHECK_LIMIT

\* The test made under queueCheckLock:
\* self.queueCheckActive || time.Since(self.lastQueueCheck) < QUEUE_CHECK_LIMIT
QueueCheckBlocked ==
    queueCheckActive \/ SinceLastQueueCheck < QUEUE_CHECK_LIMIT

\* The metadatas of frontier nodes in state Queued or Running that have a
\* non-empty JobId file (one metadata and one job id per node).
NeedsQuery ==
    {n \in getFrontierNodes : getState(n) \in {Queued, Running} /\ n \in jobIds}

\* Pipestance.CheckHeartbeats up to and including the locked test at the
\* start of queryQueue.
CheckHeartbeats(k) ==
    /\ qpc[k] = "idle"
    /\ IF readOnly
       THEN UNCHANGED <<qpc, queueCheckActive>>
       ELSE IF ~hasQueueCheck \/ QueueCheckBlocked
       THEN /\ qpc' = [qpc EXCEPT ![k] = "heartbeats"]
            /\ UNCHANGED queueCheckActive
       ELSE /\ queueCheckActive' = TRUE
            /\ qpc' = [qpc EXCEPT ![k] = "prep"]
    /\ UNCHANGED <<now, lastQueueCheck, hasQueueCheck, probes, checkQueueCalls,
                   notRunning>>
    /\ UNCHANGED <<runVars, lockVars, immVars, incVars, compVars, callVars, transVars, buildVars,
                   auxVars, lockStamp>>
    /\ probeResult' = NoProbe

ActiveAfterEmptyQueryKept == queueCheckActive

\* if len(needsQuery) == 0 { ... self.queueCheckActive = false ... return }
ActiveAfterEmptyQuery == FALSE

\* queryQueue after the gate: collect the job ids; with none to query the
\* flag is cleared at once, otherwise the probe goroutine is started.
QueryQueuePrep(k) ==
    /\ qpc[k] = "prep"
    /\ IF NeedsQuery = {}
       THEN /\ queueCheckActive' = ActiveAfterEmptyQuery
            /\ UNCHANGED probes
       ELSE /\ probes' = Append(probes, [st |-> "spawned", needsQuery |-> NeedsQuery])
            /\ UNCHANGED queueCheckActive
    /\ qpc' = [qpc EXCEPT ![k] = "heartbeats"]
    /\ UNCHANGED <<now, lastQueueCheck, hasQueueCheck, checkQueueCalls, notRunning>>
    /\ UNCHANGED <<runVars, lockVars, immVars, incVars, compVars, callVars, transVars, buildVars,
                   auxVars, lockStamp>>
    /\ probeResult' = NoProbe

\* CheckHeartbeats after queryQueue returned: node.checkHeartbeats() on every
\* frontier node; a Running node whose heartbeat is stale is declared failed.
NodeHeartbeats(k) ==
    /\ qpc[k] = "heartbeats"
    /\ \E stale \in SUBSET {n \in getFrontierNodes : meta[n] = Running} :
         meta' = [n \in Nodes |-> IF n \in stale THEN Failed ELSE meta[n]]
    /\ qpc' = [qpc EXCEPT ![k] = "idle"]
    /\ UNCHANGED <<state, frontier, killed, jobs, jobIds, stateResult, reattached>>
    /\ UNCHANGED <<now, queueCheckActive, lastQueueCheck, hasQueueCheck, probes,
                   checkQueueCalls, notRunning>>
    /\ UNCHANGED <<lockVars, immVars, incVars, compVars, callVars, transVars, buildVars,
                   auxVars, lockStamp>>
    /\ probeResult' = NoProbe

RemoveAt(s, i) == [j \in 1..(Len(s) - 1) |-> IF j < i THEN s[j] ELSE s[j + 1]]

\* The goroutine calls JobManager.checkQueue(jobsIn, ctx).
ProbeCheckQueue(i) ==
    /\ i \in DOMAIN probes
    /\ probes[i].st = "spawned"
    /\ probes' = [probes EXCEPT ![i].st = "called"]
    /\ checkQueueCalls' = Append(checkQueueCalls,
                                 [t |-> now, last |-> lastQueueCheck,
                                  jobsIn |-> probes[i].needsQuery])
    /\ UNCHANGED <<now, queueCheckActive, lastQueueCheck, hasQueueCheck, qpc,
                   notRunning>>
    /\ UNCHANGED <<runVars, lockVars, immVars, incVars, compVars, callVars, transVars, buildVars,
                   auxVars, lockStamp>>
    /\ probeResult' = NoProbe

NotRunningIdsAll(needsQuery, queued) == needsQuery

\* for _, id := range queued { delete(needsQuery, id) }: what is left gets
\* failNotRunning.
NotRunningIds(needsQuery, queued) == needsQuery \ queued

ProbeNodeStatesFailed(missing) ==
    [n \in Nodes |-> IF n \in missing THEN Failed ELSE state[n]]

\* The node states the goroutine leaves behind: it calls m.failNotRunning(id)
\* on metadata objects and assigns no node's state field.
ProbeNodeStates(missing) == state

\* checkQueue returns the ids still queued; the others get failNotRunning
\* unless the pipestance is read-only; then, under the mutex, the flag is
\* cleared and lastQueueCheck set.
ProbeReturn(i) ==
    /\ i \in DOMAIN probes
    /\ probes[i].st = "called"
    /\ \E queued \in SUBSET probes[i].needsQuery :
         LET missing == NotRunningIds(probes[i].needsQuery, queued)
         IN /\ probeResult' = [jobsIn |-> probes[i].needsQuery, queued |-> queued,
                               written |-> IF readOnly THEN {} ELSE missing,
                               readOnly |-> readOnly, returned |-> TRUE]
            /\ IF readOnly
               THEN UNCHANGED <<state, meta, notRunning>>
               ELSE /\ notRunning' = notRunning \cup missing
                    /\ meta' = [n \in Nodes |->
                                  IF n \in missing /\ meta[n] \in {Queued, Running}
                                  THEN Failed ELSE meta[n]]
                    /\ state' = ProbeNodeStates(missing)
    /\ queueCheckActive' = FALSE
    /\ lastQueueCheck' = now
    /\ probes' = RemoveAt(probes, i)
    /\ UNCHANGED <<now, hasQueueCheck, qpc, checkQueueCalls>>
    /\ UNCHANGED <<frontier, killed, jobs, jobIds, stateResult, reattached>>
    /\ UNCHANGED <<lockVars, immVars, incVars, compVars, callVars, transVars, buildVars,
                   auxVars, lockStamp>>

\* A minute passes.
Tick ==
    /\ now < MaxTime
    /\ now' = now + 1
    /\ UNCHANGED <<queueCheckActive, lastQueueCheck, hasQueueCheck, qpc, probes,
                   checkQueueCalls, notRunning>>
    /\ UNCHANGED <<runVars, lockVars, immVars, incVars, compVars, callVars, transVars, buildVars,
                   auxVars, lockStamp>>
    /\ probeResult' = NoProbe

-----------------------------------------------------------------------------
(* Transient-error classification.                                         *)

\* The log lines a node may report; "" is no log line.
LogLines == {"", "oom", "err"}

\* transResult before any IsErrorTransient call.
NoTransResult == [called |-> FALSE, ok |-> TRUE, log |-> "", order |-> <<>>]

KeepLastLog(firstLog, log) == IF log = "" THEN firstLog ELSE log

\* else if firstLog == "" { firstLog = log }
KeepFirstLog(firstLog, log) == IF firstLog = "" THEN log ELSE firstLog

RECURSIVE transientLoop(_, _)
\* The loop of IsErrorTransient over the frontier nodes still to visit.
transientLoop(order, firstLog) ==
    IF order = <<>> THEN [ok |-> TRUE, log |-> firstLog]
    ELSE LET n == Head(order)
         IN IF ~transient[n] THEN [ok |-> FALSE, log |-> logLine[n]]
            ELSE transientLoop(Tail(order), KeepFirstLog(firstLog, logLine[n]))

\* Pipestance.IsErrorTransient.
IsErrorTransient ==
    /\ \E order \in Orders(getFrontierNodes) :
         LET r == transientLoop(order, "")
         IN transResult' = [called |-> TRUE, ok |-> r.ok, log |-> r.log,
                            order |-> order]
    /\ UNCHANGED <<transient, logLine>>
    /\ UNCHANGED <<runVars, lockVars, queueVars, immVars, incVars, compVars,
                   callVars, buildVars, auxVars, lockStamp, probeResult>>

-----------------------------------------------------------------------------
(* Immortalize.                                                            *)

Perf == "_perf"
FinalState == "_finalstate"
MetadataZip == "_metadata.zip"
Artifacts == {Perf, FinalState, MetadataZip}

\* if !self.metadata.exists(name) { self.metadata.Write(name, ...) }
NeedsWriteAlways(name) == TRUE

NeedsWrite(name) == name \notin psFiles

AfterFailedZipKept(files) == files

\* os.Remove(zipPath) after ZipMetadata returned an error.
AfterFailedZip(files) == files \ {MetadataZip}

\* Pipestance.Immortalize(force) with ZipMetadata.  The result of a
\* metadata.Write is ignored by the code; a failed write or a failed
\* CreateZip leaves no artifact (os.Remove(zipPath)).
Immortalize(force) ==
    /\ immCalls < MaxImmCalls
    /\ immCalls' = immCalls + 1
    /\ IF ~force /\ readOnly
       THEN /\ immResult' = "readonly"
            /\ UNCHANGED <<psFiles, nodeFiles, artifactWrites, zipAttempts>>
       ELSE \E perfOk, finalOk, zipOk \in BOOLEAN :
            LET wPerf  == NeedsWrite(Perf) /\ perfOk
                wFinal == NeedsWrite(FinalState) /\ finalOk
                tryZip == NeedsWrite(MetadataZip) /\ configZip
                wZip   == tryZip /\ zipOk
                written == psFiles \cup (IF wPerf THEN {Perf} ELSE {})
                                   \cup (IF wFinal THEN {FinalState} ELSE {})
                                   \cup (IF tryZip THEN {MetadataZip} ELSE {})
            IN /\ psFiles' = IF tryZip /\ ~zipOk
                             THEN AfterFailedZip(written) ELSE written
               /\ artifactWrites' =
                    [a \in Artifacts |->
                       artifactWrites[a] +
                       (IF \/ a = Perf /\ wPerf
                           \/ a = FinalState /\ wFinal
                           \/ a = MetadataZip /\ wZip THEN 1 ELSE 0)]
               /\ zipAttempts' = zipAttempts + (IF tryZip THEN 1 ELSE 0)
               /\ nodeFiles' = (nodeFiles /\ ~wZip)
               /\ immResult' = IF tryZip /\ ~zipOk THEN "error" ELSE "nil"
    /\ UNCHANGED configZip
    /\ UNCHANGED <<runVars, lockVars, queueVars, incVars, compVars, callVars, transVars, buildVars,
                   auxVars, lockStamp, probeResult>>

-----------------------------------------------------------------------------
(* The include resolver.                                                   *)

\* The file given to ParseSourceBytes.
Root == 1

\* An include name that util.SearchPaths does not find (no_such.mro); the
\* names of the files are their numbers.
Missing == NumFiles + 1

\* What an include directive may name.
IncludeNames == Files \cup {Missing}

\* A located error: kind, the file and line of the include directive, and
\* the include's name.
Err(kind, f, i) == [kind |-> kind, file |-> f, line |-> i, name |-> inc[f][i]]

AddErr(st, e) == [st EXCEPT !.errs = Append(@, e)]

RECURSIVE AddErrs(_, _, _)
AddErrs(st, e, n) == IF n = 0 THEN st ELSE AddErrs(AddErr(st, e), e, n - 1)

RECURSIVE checkIncludes(_, _, _, _)
RECURSIVE checkParents(_, _, _, _, _)
\* SourceFile.checkIncludes(fullPath, inc) on file src, with the IncludedFrom
\* lists `from`: the number of cycle errors in the list it returns.  A call
\* on a file that is already on the call stack repeats itself without end
\* (nothing it reads changes): the recursion exhausts the stack.
checkIncludes(from, src, fullPath, stack) ==
    IF fullPath = src THEN [overflow |-> FALSE, n |-> 1]
    ELSE IF src \in stack THEN [overflow |-> TRUE, n |-> 0]
    ELSE checkParents(from, from[src], fullPath, stack \cup {src}, 1)

\* for _, parent := range src.IncludedFrom { parent.File.checkIncludes(...) }
checkParents(from, parents, fullPath, stack, i) ==
    IF i > Len(parents) THEN [overflow |-> FALSE, n |-> 0]
    ELSE LET r == checkIncludes(from, parents[i], fullPath, stack)
         IN IF r.overflow THEN r
            ELSE LET rest == checkParents(from, parents, fullPath, stack, i + 1)
                 IN IF rest.overflow THEN rest
                    ELSE [overflow |-> FALSE, n |-> r.n + rest.n]

SeenAfterForgets(seen, t) == seen

\* seen[absPath] = struct{}{}
SeenAfter(seen, t) == seen \cup {t}

NotFoundDropped(st, f, i) == st

\* errs = append(errs, &FileNotFoundError{name: inc.Value, loc: inc.Node.Loc})
NotFound(st, f, i) == AddErr(st, Err("FileNotFound", f, i))

RECURSIVE getIncludes(_, _, _, _)
RECURSIVE parseSource(_, _)
\* getIncludes(srcFile, includes, ...) from the i-th include of file f on.
\* st = [processed, from, errs, overflow, parsed]: processedIncludes, the
\* IncludedFrom list of every SourceFile, the errors so far, whether the
\* stack was exhausted, and the files parsed.
getIncludes(st, f, i, seen) ==
    IF st.overflow \/ i > Len(inc[f]) THEN st
    ELSE LET t == inc[f][i] IN
      IF t = Missing THEN getIncludes(NotFound(st, f, i), f, i + 1, seen)
      ELSE
        LET st1 == IF t \in seen
                   THEN AddErr(st, Err("IncludedMultipleTimes", f, i)) ELSE st
            st2 ==
              IF t = f THEN AddErr(st1, Err("IncludesItself", f, i))
              ELSE IF t \in st1.processed
              THEN LET from == [st1.from EXCEPT ![t] = Append(@, f)]
                       r == checkIncludes(from, f, t, {})
                   IN IF r.overflow
                      THEN [st1 EXCEPT !.from = from, !.overflow = TRUE]
                      ELSE AddErrs([st1 EXCEPT !.from = from],
                                   Err("IncludeCycle", f, i), r.n)
              ELSE parseSource([st1 EXCEPT !.processed = @ \cup {t},
                                           !.from[t] = <<f>>], t)
        IN getIncludes(st2, f, i + 1, SeenAfter(seen, t))

\* parseSource: yaccParse, then getIncludes on the file's includes.  A file
\* that cannot be read or does not parse gives one error and no includes.
parseSource(st, f) ==
    LET st1 == [st EXCEPT !.parsed = Append(@, f)]
    IN IF f \in bad
       THEN AddErr(st1, [kind |-> "ParseError", file |-> f, line |-> 0, name |-> f])
       ELSE getIncludes(st1, f, 1, {})

\* The state parseSource starts from in ParseSourceBytes:
\* processedIncludes = {absPath: &srcFile}, no IncludedFrom anywhere.
ParseStart ==
    [processed |-> {Root}, from |-> [f \in Files |-> <<>>], errs |-> <<>>,
     overflow |-> FALSE, parsed |-> <<>>]

ParseEnd == parseSource(ParseStart, Root)

TotalDirectives(i) ==
    LET RECURSIVE sum(_)
        sum(S) == IF S = {} THEN 0
                  ELSE LET f == CHOOSE x \in S : TRUE
                       IN Len(i[f]) + sum(S \ {f})
    IN sum(Files)

\* The author adds an include directive to a file that parses.
AddInclude(f, t) ==
    /\ phase = "edit"
    /\ f \notin bad
    /\ TotalDirectives(inc) < MaxDirectives
    /\ inc' = [inc EXCEPT ![f] = Append(@, t)]
    /\ UNCHANGED <<bad, phase, parseResult, parseErrs, parsed>>
    /\ UNCHANGED <<runVars, lockVars, queueVars, immVars, compVars, callVars, transVars, buildVars,
                   auxVars, lockStamp, probeResult>>

\* Parser.ParseSourceBytes: parseSource; on error return it, else
\* ast.compile() (and checkSrcPaths), whose error is returned as well.
ParseSourceBytes ==
    /\ phase = "edit"
    /\ phase' = "done"
    /\ LET st == ParseEnd IN
       /\ parsed' = st.parsed
       /\ IF st.overflow
          THEN parseResult' = "overflow" /\ parseErrs' = <<>>
          ELSE IF st.errs # <<>>
          THEN parseResult' = "error" /\ parseErrs' = st.errs
          ELSE \E compileErr \in BOOLEAN :
               IF compileErr
               THEN /\ parseResult' = "error"
                    /\ parseErrs' = <<[kind |-> "CompileError", file |-> Root,
                                       line |-> 0, name |-> Root]>>
               ELSE parseResult' = "nil" /\ parseErrs' = <<>>
    /\ UNCHANGED <<inc, bad>>
    /\ UNCHANGED <<runVars, lockVars, queueVars, immVars, compVars, callVars, transVars, buildVars,
                   auxVars, lockStamp, probeResult>>

-----------------------------------------------------------------------------
(* Ast.compile: the six passes.                                            *)

PassOrder ==
    <<"compileTypes", "Callables.compile", "compileStages",
      "compilePipelineDecs", "compilePipelineArgs", "compileCall">>

Passes == {PassOrder[i] : i \in DOMAIN PassOrder}

PassIndex(p) == CHOOSE i \in DOMAIN PassOrder : PassOrder[i] = p

\* The statement after pass p's if-statement.
NextPass(p) ==
    IF PassIndex(p) = Len(PassOrder) THEN "done" ELSE PassOrder[PassIndex(p) + 1]

AfterPassIgnoresError(p) == NextPass(p)

\* if err := pass(); err != nil { return err }
AfterPass(p) == IF passErr[p] THEN "done" ELSE NextPass(p)

RunPass(p) ==
    /\ cpc = p
    /\ ran' = Append(ran, p)
    /\ cpc' = AfterPass(p)
    /\ compileResult' = IF cpc' # "done" THEN compileResult
                        ELSE IF passErr[p] THEN p ELSE "nil"
    /\ UNCHANGED passErr
    /\ UNCHANGED <<runVars, lockVars, queueVars, immVars, incVars, callVars, transVars, buildVars,
                   auxVars, lockStamp, probeResult>>

compileTypes == RunPass("compileTypes")
compileCallables == RunPass("Callables.compile")
compileStages == RunPass("compileStages")
compilePipelineDecs == RunPass("compilePipelineDecs")
compilePipelineArgs == RunPass("compilePipelineArgs")
compileCall == RunPass("compileCall")

-----------------------------------------------------------------------------
(* NewPipestance.                                                          *)

\* Instance identifiers of the calls of a pipeline, by position.
CallIds == <<"c1", "c2", "c3", "c4">>

\* The declared name of the top-level callee, and an instance identifier
\* that differs from it (call STAGE as ALIAS).
DeclaredId == "STAGE"
InstanceIds == {DeclaredId, "ALIAS"}

\* Out parameters a stage may declare.
OutParams == {"o1", "o2"}

\* A call statement of a pipeline: its callee's kind ("other" is a callee
\* that is neither a stage nor a pipeline, or is missing from the table),
\* its preflight modifier, and whether its child constructor returns an error
\* (an error at any depth below it).
CallStms ==
    [kind : {"stage", "pipeline", "other"}, preflight : BOOLEAN, fails : BOOLEAN]

NoBuild == [self |-> "none", err |-> "none"]

ErrorReturnSelf == [self |-> "partial", err |-> "error"]

\* return nil, err
ErrorReturn == [self |-> "nil", err |-> "error"]

\* return self, nil
OkReturn == [self |-> "pipestance", err |-> "nil"]

\* A nil Nodable is dereferenced while the return bindings are attached.
PanicReturn == [self |-> "none", err |-> "panic"]

\* wrapStageAsPipeline(call, stage): the given call is the only call; one
\* return binding per out parameter, a call reference whose Id is stage.Id.
wrapStageAsPipeline(call) ==
    [calls |-> <<[id |-> call.id, kind |-> "stage", preflight |-> FALSE,
                  fails |-> call.fails]>>,
     ret |-> {[id |-> o, kind |-> "call", ref |-> call.decId, out |-> o] :
                o \in call.outs}]

\* NewPipestance up to the loop: look the callee up; a pipeline is taken as
\* it is, a stage is wrapped, anything else is an error.
BuildResolve ==
    /\ bpc = "start"
    /\ IF callee.kind = "pipeline"
       THEN /\ pipeline' = [calls |-> [i \in DOMAIN calls |->
                                        [id |-> CallIds[i], kind |-> calls[i].kind,
                                         preflight |-> calls[i].preflight,
                                         fails |-> calls[i].fails]],
                            ret |-> {}]
            /\ bpc' = "calls"
            /\ UNCHANGED buildResult
       ELSE IF callee.kind = "stage"
       THEN /\ pipeline' = wrapStageAsPipeline(callee)
            /\ bpc' = "calls"
            /\ UNCHANGED buildResult
       ELSE /\ buildResult' = ErrorReturn
            /\ bpc' = "done"
            /\ UNCHANGED pipeline
    /\ UNCHANGED <<callee, calls, subnodes, preflightNodes, prenodes, retbindings,
                   constructed>>
    /\ UNCHANGED <<runVars, lockVars, queueVars, immVars, incVars, compVars,
                   callVars, transVars, auxVars,
                   lockStamp, probeResult>>

\* The number of calls the loop has gone through.
CallsDone == Cardinality(subnodes)

\* One iteration of the loop over pipeline.Calls: construct the child
\* (NewStagestance / NewPipestance), return nil and its error if it failed,
\* else register it under the call's Id and note it if it is preflight.
BuildCall ==
    /\ bpc = "calls"
    /\ CallsDone < Len(pipeline.calls)
    /\ LET c == pipeline.calls[CallsDone + 1]
       IN IF c.kind = "other"
          THEN /\ buildResult' = ErrorReturn
               /\ bpc' = "done"
               /\ UNCHANGED <<subnodes, preflightNodes, constructed>>
          ELSE /\ constructed' = Append(constructed, c.id)
               /\ IF c.fails
                  THEN /\ buildResult' = ErrorReturn
                       /\ bpc' = "done"
                       /\ UNCHANGED <<subnodes, preflightNodes>>
                  ELSE /\ subnodes' = subnodes \cup {c.id}
                       /\ preflightNodes' = IF c.preflight
                                            THEN Append(preflightNodes, c.id)
                                            ELSE preflightNodes
                       /\ UNCHANGED <<buildResult, bpc>>
    /\ UNCHANGED <<callee, calls, pipeline, prenodes, retbindings>>
    /\ UNCHANGED <<runVars, lockVars, queueVars, immVars, incVars, compVars,
                   callVars, transVars, auxVars,
                   lockStamp, probeResult>>

\* NewReturnBinding: a call reference resolves to the child registered under
\* the reference's Id, or to nil.
Resolve(b) == IF b.ref \in subnodes THEN b.ref ELSE "nil"

\* After the loop: the return bindings are created and attached.  Attaching
\* a binding that resolved to nil either dereferences it or keeps it.
BuildReturns ==
    /\ bpc = "calls"
    /\ CallsDone = Len(pipeline.calls)
    /\ retbindings' = {[id |-> b.id, kind |-> b.kind, out |-> b.out,
                        boundNode |-> Resolve(b)] : b \in pipeline.ret}
    /\ IF \E b \in pipeline.ret : Resolve(b) = "nil"
       THEN \/ buildResult' = PanicReturn /\ bpc' = "done"
            \/ bpc' = "preflight" /\ UNCHANGED buildResult
       ELSE bpc' = "preflight" /\ UNCHANGED buildResult
    /\ UNCHANGED <<callee, calls, pipeline, subnodes, preflightNodes, prenodes,
                   constructed>>
    /\ UNCHANGED <<runVars, lockVars, queueVars, immVars, incVars, compVars,
                   callVars, transVars, auxVars,
                   lockStamp, probeResult>>

\* subnode.getNode().preflight of a registered child.
IsPreflight(id) ==
    \E i \in DOMAIN pipeline.calls :
      pipeline.calls[i].id = id /\ pipeline.calls[i].preflight

GetsPreflightPrenodeAlways(id) == TRUE

\* if !subnode.getNode().preflight { subnode.getNode().setPrenode(preflightNode) }
GetsPreflightPrenode(id) == ~IsPreflight(id)

\* The preflight loops, buildForks, return self, nil.
BuildPreflight ==
    /\ bpc = "preflight"
    /\ prenodes' = [id \in subnodes |->
                      IF GetsPreflightPrenode(id)
                      THEN {preflightNodes[i] : i \in DOMAIN preflightNodes}
                      ELSE {}]
    /\ buildResult' = OkReturn
    /\ bpc' = "done"
    /\ UNCHANGED <<callee, calls, pipeline, subnodes, preflightNodes, retbindings,
                   constructed>>
    /\ UNCHANGED <<runVars, lockVars, queueVars, immVars, incVars, compVars,
                   callVars, transVars, auxVars,
                   lockStamp, probeResult>>

-----------------------------------------------------------------------------
(* Reattach: VerifyJobMode.                                                *)

\* The job modes a configuration may name.
ConfigJobModes == {"local", "sge"}

\* What the JobMode file may hold: a job mode, or nothing.
JobModeContents == ConfigJobModes \cup {""}

JobModeMismatchNoFile == jobModeFile.raw # configJobMode

\* if self.metadata.exists(JobModeFile) { jobMode := readRaw(JobModeFile);
\*     if jobMode != self.node.rt.Config.JobMode { return error } }
JobModeMismatch == jobModeFile.exists /\ jobModeFile.raw # configJobMode

\* Pipestance.VerifyJobMode: loadCache() and the two reads write nothing.
VerifyJobMode ==
    /\ verifyResult' = IF JobModeMismatch THEN "PipestanceJobModeError" ELSE "nil"
    /\ UNCHANGED <<jobModeFile, configJobMode, hookIn, hookCalls, hookResult,
                   stageIn, fileArgs, stageResult, restartResult, jobManagers,
                   caller>>
    /\ UNCHANGED <<runVars, lockVars, queueVars, immVars, incVars, compVars,
                   callVars, transVars, buildVars, lockStamp, probeResult>>

-----------------------------------------------------------------------------
(* OnFinishHook.                                                           *)

\* Pipestance.GetPath(): self.node.parent.getNode().path
GetPath == "/runs/psid"

\* filepath.Dir(self.GetPath())
GetPathDir == "/runs"

\* Pipestance.GetPname(): self.node.name, the name of the top-level call.
GetPname == "PIPELINE"

\* Pipestance.GetPsid(): self.node.parent.getNode().name
GetPsid == "psid"

\* The error files GetFatalError may report.
ErrorFiles == {"/runs/psid/PIPELINE/A/_errors", "/runs/psid/PIPELINE/B/_errors"}

\* filepath.Rel(base, target), kept as the pair it is computed from.
Rel(base, target) == [base |-> base, target |-> target]

\* The handler's arguments: $1, $2, $3 and, for a failed pipestance with an
\* error file, $4.
HookArgs ==
    [path |-> GetPath,
     state |-> GetState,
     id |-> GetPname,
     err |-> IF GetState = Failed /\ Len(hookIn.errPaths) > 0
             THEN <<Rel(GetPathDir, hookIn.errPaths[1])>>
             ELSE <<>>]

\* Pipestance.OnFinishHook: nothing without a handler; the handler is run
\* when exec.LookPath finds it, and a failure of the run is only logged.
OnFinishHook ==
    /\ hookResult = "none"
    /\ IF hookIn.handler = ""
       THEN /\ hookResult' = "nohandler"
            /\ UNCHANGED hookCalls
       ELSE IF ~hookIn.found
       THEN /\ hookResult' = "notfound"
            /\ UNCHANGED hookCalls
       ELSE /\ hookCalls' = Append(hookCalls, HookArgs)
            /\ hookResult' = "ran"
    /\ UNCHANGED <<jobModeFile, configJobMode, verifyResult, hookIn,
                   stageIn, fileArgs, stageResult, restartResult, jobManagers,
                   caller>>
    /\ UNCHANGED <<runVars, lockVars, queueVars, immVars, incVars, compVars,
                   callVars, transVars, buildVars, lockStamp, probeResult>>

-----------------------------------------------------------------------------
(* NewStagestance.                                                         *)

\* The out parameters a retain list may name, and the nodes that may
\* already be recorded as consumers of a file argument.
RetainParams == {"p1", "p2"}
Consumers == {"n1"}

\* The nil key of fork.fileArgs[param]: the parameter is retained.
NilNode == "nil"

\* What fork.fileArgs may hold after buildForks: some parameters, each with
\* its consumers (a nil map is the map without parameters).
FileArgMaps == UNION {[S -> SUBSET Consumers] : S \in SUBSET RetainParams}

NoStage == [self |-> "none", err |-> "none"]

retainArgAlone(fa, p) == {NilNode}

\* if arg := fork.fileArgs[param.Id]; arg == nil { fork.fileArgs[param.Id] =
\* {nil: {}} } else { arg[nil] = struct{}{} }
retainArg(fa, p) == IF p \in DOMAIN fa THEN fa[p] \cup {NilNode} ELSE {NilNode}

\* The retain loop's effect on one fork.
retainFork(fa, params) ==
    [p \in (DOMAIN fa) \cup params |->
       IF p \in params THEN retainArg(fa, p) ELSE fa[p]]

\* NewStagestance: the callee must be a stage (else nil and an error); an
\* unparsable language, or a stress test of a stage that is not python,
\* returns the stagestance with an error before the forks are built; else
\* the retained parameters are marked on every fork.
NewStagestance ==
    /\ stageResult = NoStage
    /\ IF ~stageIn.isStage
       THEN /\ stageResult' = [self |-> "nil", err |-> "error"]
            /\ UNCHANGED fileArgs
       ELSE IF ~stageIn.langOk \/ (stageIn.stressTest /\ ~stageIn.python)
       THEN /\ stageResult' = [self |-> "stagestance", err |-> "error"]
            /\ UNCHANGED fileArgs
       ELSE /\ fileArgs' = IF stageIn.hasRetain
                           THEN [f \in DOMAIN fileArgs |->
                                   retainFork(fileArgs[f], stageIn.retain)]
                           ELSE fileArgs
            /\ stageResult' = [self |-> "stagestance", err |-> "nil"]
    /\ UNCHANGED <<jobModeFile, configJobMode, verifyResult, hookIn, hookCalls,
                   hookResult, stageIn, restartResult, jobManagers,
                   caller>>
    /\ UNCHANGED <<runVars, lockVars, queueVars, immVars, incVars, compVars,
                   callVars, transVars, buildVars, lockStamp, probeResult>>

-----------------------------------------------------------------------------
(* Initial states.                                                         *)

\* A constructed pipestance over a directory whose metadata is arbitrary:
\* no node loaded yet, the frontier map empty (NewTopNode).
RunInit ==
    /\ meta \in [Nodes -> MetadataStates]
    /\ state = [n \in Nodes |-> Waiting]
    /\ frontier = {}
    /\ killed = {}
    /\ jobs = 0
    /\ jobIds = {n \in Nodes : meta[n] \in {Queued, Running}}
    /\ stateResult = "none"
    /\ reattached = "no"

RunOff ==
    /\ meta = [n \in Nodes |-> Waiting]
    /\ state = [n \in Nodes |-> Waiting]
    /\ frontier = {}
    /\ killed = {}
    /\ jobs = 0
    /\ jobIds = {}
    /\ stateResult = "none"
    /\ reattached = "no"

LockInit ==
    /\ lockFile = FALSE
    /\ lpc = [c \in Controllers |-> "idle"]
    /\ lockResult = [c \in Controllers |-> "none"]
    /\ handlers = {}

\* The pipestance is locked by Self.
LockHeld ==
    /\ lockFile = TRUE
    /\ lpc = [c \in Controllers |-> "idle"]
    /\ lockResult = [c \in Controllers |-> IF c = Self THEN "ok" ELSE "none"]
    /\ handlers = {Self}

QueueInit ==
    /\ now = 0
    /\ queueCheckActive = FALSE
    /\ lastQueueCheck = ZeroTime
    /\ qpc = [k \in Callers |-> "idle"]
    /\ probes = <<>>
    /\ checkQueueCalls = <<>>
    /\ notRunning = {}

ImmInit ==
    /\ psFiles = {}
    /\ nodeFiles = TRUE
    /\ artifactWrites = [a \in Artifacts |-> 0]
    /\ zipAttempts = 0
    /\ immCalls = 0
    /\ immResult = "none"

IncInit ==
    /\ inc = [f \in Files |-> <<>>]
    /\ phase = "edit"
    /\ parseResult = "none"
    /\ parseErrs = <<>>
    /\ parsed = <<>>

CompInit ==
    /\ cpc = PassOrder[1]
    /\ ran = <<>>
    /\ compileResult = "none"

NoPassFails == passErr = [p \in Passes |-> FALSE]

\* NewPipestance has just been called.
BuildStart ==
    /\ bpc = "start"
    /\ pipeline = [calls |-> <<>>, ret |-> {}]
    /\ subnodes = {}
    /\ preflightNodes = <<>>
    /\ prenodes = <<>>
    /\ retbindings = {}
    /\ constructed = <<>>
    /\ buildResult = NoBuild

\* No StepNodes, kill, Reset or RestartRunningNodes call yet.
CallStart ==
    /\ stepResult = NoStep
    /\ madeDirs = {}
    /\ killIssued = FALSE
    /\ resetResult = NoReset

\* No node is marked local.
CallInit ==
    /\ local = [n \in Nodes |-> FALSE]
    /\ CallStart

TransInit ==
    /\ transient = [n \in Nodes |-> TRUE]
    /\ logLine = [n \in Nodes |-> ""]
    /\ transResult = NoTransResult

BuildInit ==
    /\ callee = [kind |-> "pipeline", id |-> DeclaredId, decId |-> DeclaredId,
                 outs |-> {}, fails |-> FALSE]
    /\ calls = <<>>
    /\ BuildStart

VerifyInit ==
    /\ jobModeFile = [exists |-> FALSE, raw |-> ""]
    /\ configJobMode = "local"
    /\ verifyResult = "none"

HookInit ==
    /\ hookIn = [handler |-> "", found |-> FALSE, errPaths |-> <<>>]
    /\ hookCalls = <<>>
    /\ hookResult = "none"

StageInit ==
    /\ stageIn = [isStage |-> TRUE, langOk |-> TRUE, stressTest |-> FALSE,
                  python |-> TRUE, hasRetain |-> FALSE, retain |-> {}]
    /\ fileArgs = <<>>
    /\ stageResult = NoStage

\* No RestartLocalJobs call yet; local mode: one job manager, whose
\* refreshResources succeeds.
RestartInit ==
    /\ restartResult = NoRestart
    /\ jobManagers = [distinct |-> FALSE, localErr |-> FALSE, clusterErr |-> FALSE]

\* No Lock file written yet.
StampInit == lockStamp = 0

\* The pipestance operations are called by the controller Self.
CallerInit == caller = Self

ProbeInit == probeResult = NoProbe

AuxInit ==
    /\ VerifyInit /\ HookInit /\ StageInit /\ RestartInit
    /\ StampInit /\ ProbeInit /\ CallerInit

-----------------------------------------------------------------------------
(* Specifications.                                                         *)

\* The pipestance of one controller: reattach, scheduling, kill, lock.
Init ==
    /\ RunInit /\ LockInit
    /\ QueueInit /\ hasQueueCheck = FALSE
    /\ ImmInit /\ configZip = FALSE
    /\ IncInit /\ bad = {}
    /\ CompInit /\ NoPassFails
    /\ CallInit /\ TransInit /\ BuildInit
    /\ AuxInit

Next ==
    \/ LoadMetadata
    \/ GetStateCall
    \/ StepNodes
    \/ KillWithMessage
    \/ \E n \in Nodes : JobStarts(n)
    \/ \E n \in Nodes : JobEnds(n)
    \/ LockCheck(Self)
    \/ LockWrite(Self)
    \/ Unlock(Self)
    \/ HandleSignal(Self)

Spec == Init /\ [][Next]_vars

\* GetState over every assignment of states to the nodes and every frontier.
StateSpecInit ==
    /\ state \in [Nodes -> MetadataStates]
    /\ meta = state
    /\ frontier \in SUBSET Nodes
    /\ killed = {}
    /\ jobs = 0
    /\ jobIds = {}
    /\ stateResult = "none"
    /\ reattached = "no"
    /\ LockInit
    /\ QueueInit /\ hasQueueCheck = FALSE
    /\ ImmInit /\ configZip = FALSE
    /\ IncInit /\ bad = {}
    /\ CompInit /\ NoPassFails
    /\ CallInit /\ TransInit /\ BuildInit
    /\ AuxInit

StateNext == GetStateCall

SpecState == StateSpecInit /\ [][StateNext]_vars

\* Recovery calls on a reattached pipestance with local and cluster nodes.
RecoverSpecInit ==
    /\ RunInit /\ LockInit
    /\ QueueInit /\ hasQueueCheck = FALSE
    /\ ImmInit /\ configZip = FALSE
    /\ IncInit /\ bad = {}
    /\ CompInit /\ NoPassFails
    /\ local \in [Nodes -> BOOLEAN] /\ CallStart
    /\ TransInit /\ BuildInit
    /\ AuxInit

RecoverNext ==
    \/ LoadMetadata
    \/ \E jobMode \in JobModes : RestartRunningNodes(jobMode)
    \/ Reset
    \/ LockCheck(Self)
    \/ LockWrite(Self)
    \/ Unlock(Self)

SpecRecover == RecoverSpecInit /\ [][RecoverNext]_vars

\* IsErrorTransient over every frontier and every report of its nodes.
TransSpecInit ==
    /\ meta = [n \in Nodes |-> Failed]
    /\ state = meta
    /\ frontier \in SUBSET Nodes
    /\ killed = {}
    /\ jobs = 0
    /\ jobIds = {}
    /\ stateResult = "none"
    /\ reattached = "no"
    /\ LockInit
    /\ QueueInit /\ hasQueueCheck = FALSE
    /\ ImmInit /\ configZip = FALSE
    /\ IncInit /\ bad = {}
    /\ CompInit /\ NoPassFails
    /\ CallInit /\ BuildInit
    /\ transient \in [Nodes -> BOOLEAN]
    /\ logLine \in [Nodes -> LogLines]
    /\ transResult = NoTransResult
    /\ AuxInit

TransNext == IsErrorTransient

SpecTransient == TransSpecInit /\ [][TransNext]_vars

\* NewPipestance over every top-level callee: a pipeline with up to MaxCalls
\* calls, a stage called under its own name or under an alias, or a callee
\* that is undeclared or of another kind.
BuildSpecInit ==
    /\ RunOff /\ LockInit
    /\ QueueInit /\ hasQueueCheck = FALSE
    /\ ImmInit /\ configZip = FALSE
    /\ IncInit /\ bad = {}
    /\ CompInit /\ NoPassFails
    /\ CallInit /\ TransInit
    /\ \/ /\ callee = [kind |-> "pipeline", id |-> DeclaredId, decId |-> DeclaredId,
                        outs |-> {}, fails |-> FALSE]
          /\ \E n \in 0..MaxCalls : calls \in [1..n -> CallStms]
       \/ /\ \E id \in InstanceIds, outs \in SUBSET OutParams, fails \in BOOLEAN :
               callee = [kind |-> "stage", id |-> id, decId |-> DeclaredId,
                         outs |-> outs, fails |-> fails]
          /\ calls = <<>>
       \/ /\ \E kind \in {"undeclared", "other"}, id \in InstanceIds :
               callee = [kind |-> kind, id |-> id, decId |-> DeclaredId,
                         outs |-> {}, fails |-> FALSE]
          /\ calls = <<>>
    /\ BuildStart
    /\ AuxInit

BuildNext ==
    \/ BuildResolve
    \/ BuildCall
    \/ BuildReturns
    \/ BuildPreflight

SpecBuild == BuildSpecInit /\ [][BuildNext]_vars

\* The variables of the other parts, at rest.
OthersOff ==
    /\ QueueInit /\ hasQueueCheck = FALSE
    /\ ImmInit /\ configZip = FALSE
    /\ IncInit /\ bad = {}
    /\ CompInit /\ NoPassFails
    /\ CallInit /\ TransInit /\ BuildInit

\* Reattach: VerifyJobMode, then LoadMetadata, over every JobMode file and
\* every configured job mode.
ReattachSpecInit ==
    /\ RunInit /\ LockInit /\ OthersOff
    /\ jobModeFile \in {[exists |-> FALSE, raw |-> ""]}
                       \cup {[exists |-> TRUE, raw |-> c] : c \in JobModeContents}
    /\ configJobMode \in ConfigJobModes
    /\ verifyResult = "none"
    /\ HookInit /\ StageInit /\ RestartInit /\ StampInit /\ ProbeInit /\ CallerInit

ReattachNext ==
    \/ VerifyJobMode
    \/ LoadMetadata

SpecReattach == ReattachSpecInit /\ [][ReattachNext]_vars

\* OnFinishHook on a pipestance in any state, with and without a handler.
HookSpecInit ==
    /\ state \in [Nodes -> {Complete, Failed, Running}]
    /\ meta = state
    /\ frontier \in SUBSET Nodes
    /\ killed = {}
    /\ jobs = 0
    /\ jobIds = {}
    /\ stateResult = "none"
    /\ reattached = "no"
    /\ LockHeld /\ OthersOff
    /\ hookIn \in [handler : {"", "onfinish"}, found : BOOLEAN,
                   errPaths : UNION {[1..n -> ErrorFiles] : n \in 0..2}]
    /\ hookCalls = <<>>
    /\ hookResult = "none"
    /\ VerifyInit /\ StageInit /\ RestartInit /\ StampInit /\ ProbeInit /\ CallerInit

HookNext == OnFinishHook

SpecHook == HookSpecInit /\ [][HookNext]_vars

\* NewStagestance over every callee and every content of the forks'
\* fileArgs, for up to MaxForks forks.
StageSpecInit ==
    /\ RunOff /\ LockInit /\ OthersOff
    /\ stageIn \in {i \in [isStage : BOOLEAN, langOk : BOOLEAN, stressTest : BOOLEAN,
                           python : BOOLEAN, hasRetain : BOOLEAN,
                           retain : SUBSET RetainParams] :
                      ~i.hasRetain => i.retain = {}}
    /\ \E n \in 1..MaxForks : fileArgs \in [1..n -> FileArgMaps]
    /\ stageResult = NoStage
    /\ VerifyInit /\ HookInit /\ RestartInit /\ StampInit /\ ProbeInit /\ CallerInit

StageNext == NewStagestance

SpecStage == StageSpecInit /\ [][StageNext]_vars

\* The scheduler of a locked pipestance under every job manager
\* configuration and every outcome of the resource refreshes.
SchedSpecInit ==
    /\ RunInit /\ LockHeld /\ OthersOff
    /\ VerifyInit /\ HookInit /\ StageInit /\ StampInit /\ ProbeInit /\ CallerInit
    /\ restartResult = NoRestart
    /\ jobManagers \in {j \in [distinct : BOOLEAN, localErr : BOOLEAN,
                                clusterErr : BOOLEAN] :
                           j.clusterErr => j.distinct}

SchedNext ==
    \/ LoadMetadata
    \/ StepNodes

SpecSched == SchedSpecInit /\ [][SchedNext]_vars

\* RestartLocalJobs on a pipestance with every choice of frontier, node
\* states and local marks, locked or not.
RestartSpecInit ==
    /\ state \in [Nodes -> {Ready, Running, Complete}]
    /\ meta = state
    /\ frontier \in SUBSET Nodes
    /\ killed = {}
    /\ jobs = 0
    /\ jobIds = {n \in Nodes : meta[n] = Running}
    /\ stateResult = "none"
    /\ reattached = "no"
    /\ LockInit \/ LockHeld
    /\ QueueInit /\ hasQueueCheck = FALSE
    /\ ImmInit /\ configZip = FALSE
    /\ IncInit /\ bad = {}
    /\ CompInit /\ NoPassFails
    /\ local \in [Nodes -> BOOLEAN]
    /\ CallStart /\ TransInit /\ BuildInit
    /\ VerifyInit /\ HookInit /\ StageInit /\ RestartInit /\ StampInit /\ ProbeInit /\ CallerInit

RestartNext == \E jobMode \in JobModes : RestartLocalJobs(jobMode)

SpecRestart == RestartSpecInit /\ [][RestartNext]_vars

\* A pipestance directory without a Lock file, as opened for inspection:
\* every operation that consults readOnly, on nodes that are Running
\* (orphaned jobs to restart, kill or check) or Failed (to reset).
ReadOnlySpecInit ==
    /\ meta \in [Nodes -> {Running, Failed}]
    /\ state = meta
    /\ frontier = Nodes
    /\ killed = {}
    /\ jobs = 0
    /\ jobIds = {n \in Nodes : meta[n] = Running}
    /\ stateResult = "none"
    /\ reattached = "no"
    /\ LockInit
    /\ QueueInit /\ hasQueueCheck = TRUE
    /\ ImmInit /\ configZip = FALSE
    /\ IncInit /\ bad = {}
    /\ CompInit /\ NoPassFails
    /\ CallInit /\ TransInit /\ BuildInit
    /\ AuxInit

ReadOnlyNext ==
    \/ LoadMetadata
    \/ StepNodes
    \/ KillWithMessage
    \/ \E jobMode \in JobModes : RestartRunningNodes(jobMode)
    \/ \E jobMode \in JobModes : RestartLocalJobs(jobMode)
    \/ Reset
    \/ \E k \in Callers : CheckHeartbeats(k)
    \/ \E force \in BOOLEAN : Immortalize(force)

SpecReadOnly == ReadOnlySpecInit /\ [][ReadOnlyNext]_vars

\* A second controller on a pipestance that Self has locked: its Pipestance
\* object never called Lock, or called it and got the locked error.
GuestSpecInit ==
    /\ meta = [n \in Nodes |-> IF n = 1 THEN Running ELSE Failed]
    /\ state = meta
    /\ frontier = Nodes
    /\ killed = {}
    /\ jobs = 0
    /\ jobIds = {n \in Nodes : meta[n] = Running}
    /\ stateResult = "none"
    /\ reattached = "no"
    /\ LockHeld
    /\ lockStamp = Self
    /\ caller = Self + 1
    /\ OthersOff
    /\ VerifyInit /\ HookInit /\ StageInit /\ RestartInit /\ ProbeInit

GuestNext ==
    \/ LockCheck(caller)
    \/ StepNodes
    \/ KillWithMessage
    \/ Reset
    \/ \E jobMode \in JobModes : RestartRunningNodes(jobMode)

SpecGuest == GuestSpecInit /\ [][GuestNext]_vars

\* Several controllers over one pipestance directory.
LockSpecInit ==
    /\ RunOff /\ LockInit
    /\ QueueInit /\ hasQueueCheck = FALSE
    /\ ImmInit /\ configZip = FALSE
    /\ IncInit /\ bad = {}
    /\ CompInit /\ NoPassFails
    /\ CallInit /\ TransInit /\ BuildInit
    /\ AuxInit

LockNext ==
    \/ \E c \in Controllers : LockCheck(c)
    \/ \E c \in Controllers : LockWrite(c)
    \/ \E c \in Controllers : Unlock(c)

SpecLock == LockSpecInit /\ [][LockNext]_vars

\* Several controllers over one pipestance directory, with signals
\* delivered to the registered handlers.
SignalNext ==
    \/ \E c \in Controllers : LockCheck(c)
    \/ \E c \in Controllers : LockWrite(c)
    \/ \E c \in Controllers : Unlock(c)
    \/ \E c \in Controllers : HandleSignal(c)

SpecSignal == LockSpecInit /\ [][SignalNext]_vars

\* The queue probe of a locked pipestance with jobs in flight.
QueueSpecInit ==
    /\ meta \in [Nodes -> {Queued, Running, Complete}]
    /\ state = meta
    /\ frontier = Nodes
    /\ killed = {}
    /\ jobs = 0
    /\ jobIds \in SUBSET {n \in Nodes : meta[n] \in {Queued, Running}}
    /\ stateResult = "none"
    /\ reattached = "no"
    /\ LockHeld
    /\ QueueInit /\ hasQueueCheck \in BOOLEAN
    /\ ImmInit /\ configZip = FALSE
    /\ IncInit /\ bad = {}
    /\ CompInit /\ NoPassFails
    /\ CallInit /\ TransInit /\ BuildInit
    /\ AuxInit

QueueNext ==
    \/ \E k \in Callers : CheckHeartbeats(k)
    \/ \E k \in Callers : QueryQueuePrep(k)
    \/ \E k \in Callers : NodeHeartbeats(k)
    \/ \E i \in 1..NumCallers : ProbeCheckQueue(i)
    \/ \E i \in 1..NumCallers : ProbeReturn(i)
    \/ Tick
    \/ HandleSignal(Self)

SpecQueue == QueueSpecInit /\ [][QueueNext]_vars

\* The queue probe under fair scheduling: a caller that passed the gate goes
\* on to the end of queryQueue, the probe goroutine is scheduled, and
\* checkQueue returns.
ProbeLiveSpecInit ==
    /\ meta \in [Nodes -> {Queued, Complete}]
    /\ state = meta
    /\ frontier = Nodes
    /\ killed = {}
    /\ jobs = 0
    /\ jobIds = {n \in Nodes : meta[n] = Queued}
    /\ stateResult = "none"
    /\ reattached = "no"
    /\ LockHeld
    /\ QueueInit /\ hasQueueCheck = TRUE
    /\ ImmInit /\ configZip = FALSE
    /\ IncInit /\ bad = {}
    /\ CompInit /\ NoPassFails
    /\ CallInit /\ TransInit /\ BuildInit
    /\ AuxInit

ProbeFairness ==
    /\ \A k \in Callers : WF_vars(QueryQueuePrep(k))
    /\ \A i \in 1..NumCallers : WF_vars(ProbeCheckQueue(i))
    /\ \A i \in 1..NumCallers : WF_vars(ProbeReturn(i))

SpecProbeLive == ProbeLiveSpecInit /\ [][QueueNext]_vars /\ ProbeFairness

\* Immortalize on a pipestance whose nodes are all Complete.
ImmSpecInit ==
    /\ meta = [n \in Nodes |-> Complete]
    /\ state = meta
    /\ frontier = {}
    /\ killed = {}
    /\ jobs = 0
    /\ jobIds = {}
    /\ stateResult = "none"
    /\ reattached = "no"
    /\ LockHeld
    /\ QueueInit /\ hasQueueCheck = FALSE
    /\ ImmInit /\ configZip \in BOOLEAN
    /\ IncInit /\ bad = {}
    /\ CompInit /\ NoPassFails
    /\ CallInit /\ TransInit /\ BuildInit
    /\ AuxInit

ImmNext ==
    \/ \E force \in BOOLEAN : Immortalize(force)
    \/ GetStateCall
    \/ Unlock(Self)
    \/ LockCheck(Self)
    \/ LockWrite(Self)

SpecImm == ImmSpecInit /\ [][ImmNext]_vars

\* Include resolution over every small include graph.
IncSpecInit ==
    /\ RunOff /\ LockInit
    /\ QueueInit /\ hasQueueCheck = FALSE
    /\ ImmInit /\ configZip = FALSE
    /\ IncInit /\ bad \in SUBSET Files
    /\ CompInit /\ NoPassFails
    /\ CallInit /\ TransInit /\ BuildInit
    /\ AuxInit

IncNext ==
    \/ \E f \in Files, t \in IncludeNames : AddInclude(f, t)
    \/ ParseSourceBytes

SpecInc == IncSpecInit /\ [][IncNext]_vars

\* Ast.compile over every choice of failing passes.
CompSpecInit ==
    /\ RunOff /\ LockInit
    /\ QueueInit /\ hasQueueCheck = FALSE
    /\ ImmInit /\ configZip = FALSE
    /\ IncInit /\ bad = {}
    /\ CompInit /\ passErr \in [Passes -> BOOLEAN]
    /\ CallInit /\ TransInit /\ BuildInit
    /\ AuxInit

CompNext ==
    \/ compileTypes
    \/ compileCallables
    \/ compileStages
    \/ compilePipelineDecs
    \/ compilePipelineArgs
    \/ compileCall

SpecCompile == CompSpecInit /\ [][CompNext]_vars

-----------------------------------------------------------------------------
(* Properties.                                                             *)

\* C1: for every assignment of states to the nodes, GetState returns Failed
\* if any frontier node is Failed; else Running if any frontier node is
\* Running; else DisabledState if every node is DisabledState; else Complete
\* if every node is Complete or DisabledState; else ForkWaiting.  The result
\* is always one of these five values.
C1_StateAggregation ==
    stateResult # "none" =>
      /\ stateResult \in {Failed, Running, DisabledState, Complete, ForkWaiting}
      /\ stateResult = Failed <=> \E n \in frontier : state[n] = Failed
      /\ stateResult = Running <=>
           /\ \A n \in frontier : state[n] # Failed
           /\ \E n \in frontier : state[n] = Running
      /\ stateResult = DisabledState <=>
           /\ \A n \in frontier : state[n] \notin {Failed, Running}
           /\ \A n \in Nodes : state[n] = DisabledState
      /\ stateResult = Complete <=>
           /\ \A n \in frontier : state[n] \notin {Failed, Running}
           /\ \E n \in Nodes : state[n] # DisabledState
           /\ \A n \in Nodes : state[n] \in {Complete, DisabledState}

\* C1 witness: GetState returned Failed although a frontier node is Running.
C1_Witness ==
    /\ stateResult = Failed
    /\ \E n \in frontier : state[n] = Running
    /\ \E n \in frontier : state[n] = Failed

\* C2: when several controllers call Lock concurrently on one pipestance
\* directory, then once every call has returned exactly one returned success
\* and every other one the locked error.
C2_LockExclusion ==
    (\A c \in Controllers : lpc[c] = "idle" /\ lockResult[c] \in {"ok", "locked"})
      => Cardinality({c \in Controllers : lockResult[c] = "ok"}) = 1

\* C3: checkQueue is invoked at most once in any five-minute window: any two
\* invocations lie at least QUEUE_CHECK_LIMIT apart, and each is made at
\* least QUEUE_CHECK_LIMIT after lastQueueCheck.
C3_RateLimit ==
    /\ \A i, j \in DOMAIN checkQueueCalls :
         i < j => checkQueueCalls[j].t - checkQueueCalls[i].t >= QUEUE_CHECK_LIMIT
    /\ \A i \in DOMAIN checkQueueCalls :
         checkQueueCalls[i].t - checkQueueCalls[i].last >= QUEUE_CHECK_LIMIT

\* C3 witness: checkQueue has been invoked a second time.
C3_Witness == Len(checkQueueCalls) >= 2

\* C4: at every moment at most one queue-probe goroutine exists, and while
\* it exists (or is being prepared) queueCheckActive is set.
C4_OneProbe ==
    /\ Len(probes) + Cardinality({k \in Callers : qpc[k] = "prep"}) <= 1
    /\ (Len(probes) + Cardinality({k \in Callers : qpc[k] = "prep"}) = 1)
         => queueCheckActive

\* C4 witness: a probe is in flight, the rate limit would not hold a caller
\* back, and every caller has come through queryQueue.
C4_Witness ==
    /\ Len(probes) = 1
    /\ SinceLastQueueCheck >= QUEUE_CHECK_LIMIT
    /\ \A k \in Callers : qpc[k] = "heartbeats"

\* C5: after LoadMetadata on a directory in which every node's metadata
\* yields Complete, GetState yields Complete, and neither the reattach nor
\* any later step submits a job.
C5_ReattachFidelity ==
    /\ [](reattached = "complete" =>
            /\ GetState = Complete
            /\ stateResult \in {"none", Complete})
    /\ [][reattached' = "complete" => jobs' = jobs]_vars

\* C5 witness: a locked, reattached all-Complete pipestance whose nodes are
\* all on the frontier and whose GetState call returned Complete.
C5_Witness ==
    /\ reattached = "complete"
    /\ lockFile
    /\ frontier = Nodes
    /\ stateResult = Complete

\* C6: over any number of Immortalize calls each of the three artifacts is
\* written at most once, and no call writes an artifact that already exists.
C6_IdempotentImmortalize ==
    /\ [](\A a \in Artifacts : artifactWrites[a] <= 1)
    /\ [][\A a \in psFiles : artifactWrites'[a] = artifactWrites[a]]_vars

\* C6 witness: Immortalize was called again on a Complete pipestance after
\* all three artifacts had been written.
C6_Witness ==
    /\ immCalls >= 2
    /\ immResult = "nil"
    /\ GetState = Complete
    /\ \A a \in Artifacts : artifactWrites[a] = 1 /\ a \in psFiles
    /\ zipAttempts = 1

\* The include graph: the files a parsed file names in its directives.
IncludeEdges(f) ==
    IF f \in bad THEN {} ELSE {inc[f][i] : i \in DOMAIN inc[f]} \cap Files

RECURSIVE ReachFrom(_)
ReachFrom(S) ==
    LET T == S \cup UNION {IncludeEdges(f) : f \in S}
    IN IF T = S THEN S ELSE ReachFrom(T)

\* The files of the root's include graph.
Reachable == ReachFrom({Root})

\* Some file of the graph includes itself directly or transitively.
HasCycle == \E f \in Reachable : f \in ReachFrom(IncludeEdges(f))

\* The errors of one kind reported at line i of file f.
ErrsAt(kind, f, i) ==
    {k \in DOMAIN parseErrs :
       parseErrs[k].kind = kind /\ parseErrs[k].file = f /\ parseErrs[k].line = i}

\* C7: for every include graph that contains a cycle, parsing the root file
\* returns a non-nil error.
C7_CycleIsError ==
    (phase = "done" /\ HasCycle) => parseResult = "error"

\* A file is named by include directives of two different files of the graph.
IncludedFromTwoFiles ==
    \E t \in Files : \E f, g \in Reachable :
      f # g /\ t \in IncludeEdges(f) /\ t \in IncludeEdges(g)

C9_MissingInclude ==
    phase = "done" =>
      /\ \A f \in Files : \A i \in 1..MaxDirectives + 1 :
           LET missing == f \in Reachable \ bad /\ i \in DOMAIN inc[f]
                          /\ inc[f][i] = Missing
           IN /\ Cardinality(ErrsAt("FileNotFound", f, i)) =
                   IF missing THEN 1 ELSE 0
              /\ \A k \in ErrsAt("FileNotFound", f, i) :
                   parseErrs[k].name = Missing
      /\ {parsed[k] : k \in DOMAIN parsed} = Reachable
      /\ (Root \notin bad /\ inc[Root] = <<Missing>>)
           => parseResult = "error" /\ Len(parseErrs) = 1

\* C10: compile runs the six passes in the fixed order; a pass starts only
\* after every earlier pass returned no error, and the first pass that
\* returns an error ends compilation with that error.
C10_PassOrder ==
    /\ Len(ran) <= Len(PassOrder)
    /\ \A i \in DOMAIN ran : ran[i] = PassOrder[i]
    /\ \A i \in DOMAIN ran : i < Len(ran) => ~passErr[ran[i]]
    /\ cpc = "done" <=> compileResult # "none"
    /\ compileResult = "nil" =>
         ran = PassOrder /\ \A p \in Passes : ~passErr[p]
    /\ compileResult \in Passes =>
         passErr[compileResult] /\ ran[Len(ran)] = compileResult

\* C10 witness: compilation ended with the fourth pass's error although a
\* later pass would fail too.
C10_Witness ==
    /\ compileResult = "compilePipelineDecs"
    /\ passErr["compileCall"]
    /\ Len(ran) = 4

\* C16: KillWithMessage on a locked pipestance marks every frontier node
\* with the kill message, and once it has run no StepNodes call issues a job.
C16_KillStopsJobs ==
    /\ [][(~readOnly /\ killIssued' /\ ~killIssued) => frontier \subseteq killed']_vars
    /\ [][killIssued => jobs' = jobs]_vars

\* C17: a StepNodes call whose free-space check reports a DiskSpaceError
\* marks every frontier node with the kill message, steps no node, submits
\* no job and returns false.
C17_DiskSpaceKills ==
    [][stepResult'.kind = "disk" =>
         /\ killed' = killed \cup frontier
         /\ state' = state /\ meta' = meta
         /\ jobs' = jobs /\ jobIds' = jobIds
         /\ stepResult'.order = <<>>
         /\ stepResult'.ret = FALSE]_vars

\* C17 witness: StepNodes hit the disk error with a Ready node on the
\* frontier while a job could still be submitted; the node is marked.
C17_Witness ==
    /\ stepResult.kind = "disk"
    /\ jobs < MaxJobs
    /\ \E n \in frontier : state[n] = Ready /\ meta[n] = Ready /\ n \in killed

\* C18: a StepNodes call that passes the read-only and disk checks calls
\* step exactly once on every frontier node, also after a node reported
\* progress, and returns the OR of the steps' results.
C18_StepsEveryNode ==
    [][stepResult'.kind = "stepped" =>
         /\ Len(stepResult'.order) = Cardinality(frontier)
         /\ {stepResult'.order[i] : i \in DOMAIN stepResult'.order} = frontier
         /\ stepResult'.ret = (\E n \in frontier : state'[n] # state[n])]_vars

\* C18 witness: StepNodes stepped both nodes, both are Queued with their
\* jobs submitted, and it returned true.
C18_Witness ==
    /\ stepResult.kind = "stepped"
    /\ Len(stepResult.order) = NumNodes
    /\ stepResult.ret
    /\ \A n \in Nodes : state[n] = Queued
    /\ jobs = NumNodes

\* C14: RestartRunningNodes on a locked pipestance resets exactly the
\* frontier nodes whose reloaded state is Running and whose jobs are local
\* (job mode "local" or node marked local); every other node keeps its
\* reloaded state and its metadata, also when a reset fails on the way.
C14_RestartLocalOrphans ==
    [][(resetResult'.seq # resetResult.seq /\ resetResult'.op = "Restart"
          /\ ~readOnly) =>
         LET sel == {n \in frontier' :
                       /\ meta[n] = Running
                       /\ (resetResult'.mode = "local" \/ local[n])}
             visited == {resetResult'.order[i] : i \in DOMAIN resetResult'.order}
         IN /\ visited = sel
            /\ \A n \in Nodes \ sel : state'[n] = meta[n] /\ meta'[n] = meta[n]
            /\ \A n \in sel : state'[n] \in {Waiting, Running}
            /\ resetResult'.ret = "nil" =>
                 \A n \in sel : state'[n] = Waiting /\ meta'[n] = Waiting]_vars

\* C14 witness: in a cluster job mode the call reset a local Running frontier
\* node and left a non-local Running frontier node alone.
C14_Witness ==
    /\ resetResult.op = "Restart"
    /\ resetResult.mode = "sge"
    /\ resetResult.ret = "nil"
    /\ \E n, m \in frontier :
         /\ local[n] /\ state[n] = Waiting /\ resetResult.order = <<n>>
         /\ ~local[m] /\ state[m] = Running

\* C15: Reset on a locked pipestance resets exactly the Failed nodes among all
\* nodes and leaves the others unchanged; it stops at the first node whose
\* reset fails and returns that error; on a read-only pipestance it returns
\* an error and alters nothing.
C15_ResetFailedNodes ==
    [][(resetResult'.seq # resetResult.seq /\ resetResult'.op = "Reset") =>
         LET failed == {n \in Nodes : state[n] = Failed}
             stop == failed \cap resetResult'.failing
             done == IF stop = {} THEN failed
                     ELSE {n \in failed : \A f \in stop : n < f}
         IN IF readOnly
            THEN /\ resetResult'.ret = "readonly"
                 /\ state' = state /\ meta' = meta /\ jobIds' = jobIds
                 /\ frontier' = frontier
            ELSE /\ resetResult'.ret = IF stop = {} THEN "nil" ELSE "error"
                 /\ \A n \in done : state'[n] = Waiting /\ meta'[n] = Waiting
                 /\ \A n \in Nodes \ done :
                      state'[n] = state[n] /\ meta'[n] = meta[n]]_vars

\* C15 witness: Reset returned nil after resetting a Failed node that is not
\* on the frontier, next to a node that stayed Running.
C15_Witness ==
    /\ resetResult.op = "Reset"
    /\ resetResult.ret = "nil"
    /\ \E n, m \in Nodes :
         /\ resetResult.order = <<n>> /\ n \notin frontier /\ state[n] = Waiting
         /\ state[m] = Running

\* C19: the queue-probe goroutine never writes a node's state or the
\* frontier; it only writes the not-running failure into the metadata of jobs
\* missing from the queue (never on a read-only pipestance) and updates
\* queueCheckActive and lastQueueCheck; without a scheduler step or reload no
\* node's state changes.
C19_ProbeLeavesNodeState ==
    /\ [][(probes' # probes /\ Len(probes') <= Len(probes)) =>
            /\ state' = state /\ frontier' = frontier
            /\ killed' = killed /\ jobs' = jobs /\ jobIds' = jobIds
            /\ \A n \in Nodes :
                 meta'[n] # meta[n] =>
                   /\ meta'[n] = Failed
                   /\ n \in notRunning' /\ ~readOnly]_vars
    /\ [][state' = state /\ frontier' = frontier]_vars

\* C19 witness: a finished probe failed a job missing from the queue in its
\* metadata while the node's state still says Queued or Running.
C19_Witness ==
    /\ probes = <<>>
    /\ ~queueCheckActive
    /\ lastQueueCheck = now
    /\ \E n \in notRunning : meta[n] = Failed /\ state[n] \in {Queued, Running}

\* C20: IsErrorTransient returns true exactly when every frontier node reports
\* its error as transient, with the first non-empty log line found in visit
\* order; otherwise it returns false with the log line of the first node
\* visited that reports a non-transient error.
C20_TransientClassification ==
    transResult.called =>
      LET order == transResult.order
          firstLogs == {i \in DOMAIN order : logLine[order[i]] # ""}
          firstBad == {i \in DOMAIN order : ~transient[order[i]]}
      IN /\ {order[i] : i \in DOMAIN order} = frontier
         /\ Len(order) = Cardinality(frontier)
         /\ transResult.ok <=> \A n \in frontier : transient[n]
         /\ transResult.ok =>
              transResult.log =
                IF firstLogs = {} THEN ""
                ELSE logLine[order[CHOOSE i \in firstLogs :
                                     \A j \in firstLogs : i <= j]]
         /\ ~transResult.ok =>
              transResult.log =
                logLine[order[CHOOSE i \in firstBad : \A j \in firstBad : i <= j]]

\* C20 witness: two transient frontier nodes with different log lines; the
\* call returned true with the log line of the node visited first.
C20_Witness ==
    /\ transResult.called
    /\ transResult.ok
    /\ Len(transResult.order) = 2
    /\ logLine[transResult.order[1]] = "oom"
    /\ logLine[transResult.order[2]] = "err"
    /\ transResult.log = "oom"

\* The instance identifiers of the calls with the preflight modifier.
PreflightCalls ==
    {pipeline.calls[i].id : i \in {j \in DOMAIN pipeline.calls :
                                     pipeline.calls[j].preflight}}

\* C11: after NewPipestance succeeded, every child whose call is preflight
\* is a prenode of every non-preflight child of the pipeline, wherever the
\* calls stand in the pipeline, and a preflight child was given no sibling
\* as a prenode.
C11_PreflightPrenodes ==
    (buildResult.self = "pipestance" /\ buildResult.err = "nil") =>
      \A i \in DOMAIN pipeline.calls :
        LET c == pipeline.calls[i]
        IN /\ c.id \in DOMAIN prenodes
           /\ prenodes[c.id] = IF c.preflight THEN {} ELSE PreflightCalls

\* C11 witness: a pipeline whose preflight call comes last, after two
\* calls that are not preflight; both of them have it as a prenode.
C11_Witness ==
    /\ buildResult.self = "pipestance"
    /\ Len(pipeline.calls) = 3
    /\ ~pipeline.calls[1].preflight
    /\ ~pipeline.calls[2].preflight
    /\ pipeline.calls[3].preflight
    /\ prenodes["c1"] = {"c3"}
    /\ prenodes["c2"] = {"c3"}
    /\ prenodes["c3"] = {}

\* C12 (as stated; refuted): when the top-level callee is a stage whose
\* construction succeeds, NewPipestance returns a pipestance whose pipeline
\* has exactly one call, the given one, and exactly one return binding per
\* out parameter of the stage, each a call reference that resolved to that
\* output of the child registered under the call's instance identifier.
C12_StageWrapped ==
    (callee.kind = "stage" /\ ~callee.fails /\ bpc = "done") =>
      /\ buildResult.self = "pipestance"
      /\ buildResult.err = "nil"
      /\ Len(pipeline.calls) = 1
      /\ pipeline.calls[1].id = callee.id
      /\ subnodes = {callee.id}
      /\ {b.id : b \in retbindings} = callee.outs
      /\ Cardinality(retbindings) = Cardinality(callee.outs)
      /\ \A b \in retbindings :
           /\ b.kind = "call"
           /\ b.out = b.id
           /\ b.boundNode = callee.id

\* The calls of the pipeline that end the construction with an error.
FailingCalls ==
    {i \in DOMAIN pipeline.calls :
       pipeline.calls[i].kind = "other" \/ pipeline.calls[i].fails}

\* C13: when the top-level callee is undeclared or of an unsupported kind, or
\* a call's callee is, or the construction of a child fails, NewPipestance
\* returns the error with a nil pipestance, and no child constructor was
\* called for a call after the failing one.
C13_FailureTransparent ==
    bpc = "done" =>
      /\ callee.kind \notin {"pipeline", "stage"} =>
           /\ buildResult.self = "nil"
           /\ buildResult.err = "error"
           /\ constructed = <<>>
      /\ FailingCalls # {} =>
           LET f == CHOOSE i \in FailingCalls : \A j \in FailingCalls : i <= j
               last == IF pipeline.calls[f].kind = "other" THEN f - 1 ELSE f
           IN /\ buildResult.self = "nil"
              /\ buildResult.err = "error"
              /\ constructed = [i \in 1..last |-> pipeline.calls[i].id]
      /\ buildResult.err = "error" =>
           callee.kind \notin {"pipeline", "stage"} \/ FailingCalls # {}

\* C13 witness: the construction of the second of three children failed;
\* the third was never constructed and nil was returned with the error.
C13_Witness ==
    /\ bpc = "done"
    /\ Len(pipeline.calls) = 3
    /\ FailingCalls = {2}
    /\ pipeline.calls[2].kind = "pipeline"
    /\ constructed = <<"c1", "c2">>
    /\ buildResult.self = "nil"
    /\ buildResult.err = "error"

\* C21: VerifyJobMode returns the job-mode error exactly when the JobMode
\* file exists and its content differs from the configured job mode, returns
\* nil when the file is absent or equal, and writes no metadata.
C21_VerifyJobMode ==
    /\ [](verifyResult # "none" =>
            (verifyResult = "PipestanceJobModeError" <=>
               (jobModeFile.exists /\ jobModeFile.raw # configJobMode)))
    /\ [](verifyResult \in {"none", "nil", "PipestanceJobModeError"})
    /\ [][verifyResult' # verifyResult =>
            UNCHANGED <<meta, state, jobModeFile, lockFile, psFiles, nodeFiles>>]_vars

\* C21 witness: the pipestance was run in sge mode and is reattached in
\* local mode; VerifyJobMode returned the error.
C21_Witness ==
    /\ verifyResult = "PipestanceJobModeError"
    /\ jobModeFile = [exists |-> TRUE, raw |-> "sge"]
    /\ configJobMode = "local"

\* C22 (as stated; refuted): with a handler configured OnFinishHook runs it
\* once with the pipestance path, the state, the pipestance id and, exactly
\* when the state is Failed, the path of the first error file relative to
\* the pipestance; without a handler nothing is run.
C22_HookArguments ==
    hookResult # "none" =>
      IF hookIn.handler = ""
      THEN hookCalls = <<>>
      ELSE /\ Len(hookCalls) = 1
           /\ hookCalls[1].path = GetPath
           /\ hookCalls[1].state = GetState
           /\ hookCalls[1].id = GetPsid
           /\ Len(hookCalls[1].err) = (IF GetState = Failed THEN 1 ELSE 0)
           /\ GetState = Failed =>
                hookCalls[1].err = <<Rel(GetPath, hookIn.errPaths[1])>>

\* C25: when NewStagestance succeeds for a stage with a retain list, every
\* fork's fileArgs has an entry with the nil consumer for every retained
\* parameter, and every entry that existed keeps its consumers.
C25_RetainMarksForks ==
    [][(stageResult = NoStage /\ stageResult'.err = "nil" /\ stageIn.hasRetain) =>
         /\ DOMAIN fileArgs' = DOMAIN fileArgs
         /\ \A f \in DOMAIN fileArgs :
              /\ \A p \in stageIn.retain :
                   /\ p \in DOMAIN fileArgs'[f]
                   /\ NilNode \in fileArgs'[f][p]
              /\ \A p \in DOMAIN fileArgs[f] :
                   /\ p \in DOMAIN fileArgs'[f]
                   /\ fileArgs[f][p] \subseteq fileArgs'[f][p]
                   /\ p \notin stageIn.retain => fileArgs'[f][p] = fileArgs[f][p]]_vars

\* C25 witness: two forks and both parameters retained; the first fork's
\* p1 had a consumer and keeps it beside the nil consumer, the second
\* fork's p2 was not tracked and now holds the nil consumer alone.
C25_Witness ==
    /\ stageResult = [self |-> "stagestance", err |-> "nil"]
    /\ stageIn.retain = RetainParams
    /\ Len(fileArgs) = 2
    /\ fileArgs[1]["p1"] = {"n1", NilNode}
    /\ fileArgs[2]["p2"] = {NilNode}

\* C23: after a successful Lock, Unlock and a signal delivered to the
\* registered handler both remove the Lock file, which makes the pipestance
\* read-only until a Lock call writes the file again; a Lock call that finds
\* the file removed succeeds; Unlock unregisters the handler, HandleSignal
\* leaves it registered.
C23_SignalAndUnlock ==
    /\ [][\A c \in Controllers :
            Unlock(c) => (~lockFile' /\ c \notin handlers')]_vars
    /\ [][\A c \in Controllers :
            HandleSignal(c) => (~lockFile' /\ handlers' = handlers)]_vars
    /\ [][(~lockFile /\ lockFile') =>
            \E c \in Controllers : lpc[c] = "write" /\ lockResult'[c] = "ok"]_vars
    /\ [][\A c \in Controllers :
            (~lockFile /\ LockCheck(c)) => lpc'[c] = "write"]_vars
    /\ [][\A c \in Controllers :
            LockWrite(c) => (lockFile' /\ lockResult'[c] = "ok")]_vars

\* C23 witness: a signal removed the lock of a controller whose handler is
\* still registered, and another controller's Lock then succeeded.
C23_Witness ==
    \E c, d \in Controllers :
      /\ c # d
      /\ c \in handlers /\ lockResult[c] = "none" /\ lpc[c] = "idle"
      /\ lockFile /\ lockStamp = d /\ lockResult[d] = "ok"

\* C30: a Lock call that finds the Lock file returns the locked error and
\* changes nothing: the file and the time in it stay as they are and no
\* signal handler is registered.
C30_RefusedLockChangesNothing ==
    [][\A c \in Controllers :
         (lockFile /\ LockCheck(c)) =>
           /\ lockResult'[c] = "locked"
           /\ UNCHANGED <<lockFile, lockStamp, handlers, lpc>>]_vars

\* C30 witness: one controller holds the lock it wrote, another one's Lock
\* call was refused and it has no handler registered.
C30_Witness ==
    \E c, d \in Controllers :
      /\ lockResult[c] = "locked" /\ c \notin handlers
      /\ lockFile /\ lockStamp = d /\ lockResult[d] = "ok" /\ handlers = {d}

\* C24: Immortalize removes the nodes' metadata files only in a call whose
\* metadata zip was created; a call whose zip creation fails returns the
\* error, removes no metadata file and leaves no zip file behind, and the
\* next call that is not refused attempts the zip again.
C24_ZipBeforeRemove ==
    [][immCalls' # immCalls =>
         /\ (nodeFiles /\ ~nodeFiles') =>
              /\ MetadataZip \in psFiles'
              /\ artifactWrites'[MetadataZip] = artifactWrites[MetadataZip] + 1
              /\ immResult' = "nil"
         /\ immResult' = "error" =>
              /\ nodeFiles' = nodeFiles
              /\ MetadataZip \notin psFiles'
              /\ zipAttempts' = zipAttempts + 1
         /\ (immResult = "error" /\ immResult' # "readonly") =>
              zipAttempts' = zipAttempts + 1]_vars

\* C24 witness: the first zip attempt failed with the metadata files left
\* in place; the second attempt created the zip and removed them.
C24_Witness ==
    /\ zipAttempts = 2
    /\ artifactWrites[MetadataZip] = 1
    /\ MetadataZip \in psFiles
    /\ ~nodeFiles
    /\ immResult = "nil"

\* C26: a StepNodes call that passes the read-only and disk checks
\* refreshes the local job manager's resources once, the cluster job
\* manager's once if and only if it is another object than the local one,
\* both before the first node is stepped; a refresh error is logged and
\* every frontier node is still stepped.
C26_RefreshBeforeStep ==
    [][stepResult'.kind = "stepped" =>
         LET ev == stepResult'.events
             at(e) == {i \in DOMAIN ev : ev[i] = e}
         IN /\ Cardinality(at("local")) = 1
            /\ Cardinality(at("cluster")) = (IF jobManagers.distinct THEN 1 ELSE 0)
            /\ \A i \in at("local") \cup at("cluster") : \A j \in at("step") : i < j
            /\ Cardinality(at("step")) = Cardinality(frontier)
            /\ stepResult'.order \in Orders(frontier)
            /\ "local" \in stepResult'.logged <=> jobManagers.localErr
            /\ "cluster" \in stepResult'.logged <=>
                 (jobManagers.distinct /\ jobManagers.clusterErr)]_vars

\* C26 witness: both refreshes failed and were logged, and both nodes were
\* stepped after them, the call returning true.
C26_Witness ==
    /\ stepResult.kind = "stepped"
    /\ jobManagers.distinct
    /\ stepResult.logged = {"local", "cluster"}
    /\ stepResult.events = <<"local", "cluster", "step", "step">>
    /\ stepResult.ret

\* C28: a queue probe collects exactly the job ids of the frontier nodes'
\* metadatas in state Queued or Running that have a non-empty JobId file and
\* submits them to checkQueue; when checkQueue returns, the not-running
\* failure is written for exactly the submitted ids that were not reported
\* as still queued, and for none if the pipestance is read-only then.
C28_ProbeSubmitsAndFails ==
    /\ [][\A k \in Callers :
            (qpc[k] = "prep" /\ qpc'[k] # "prep") =>
              LET ids == {n \in frontier : meta[n] \in {Queued, Running} /\ n \in jobIds}
              IN IF ids = {} THEN probes' = probes
                 ELSE probes' = Append(probes, [st |-> "spawned", needsQuery |-> ids])]_vars
    /\ [][Len(checkQueueCalls') > Len(checkQueueCalls) =>
            \E i \in DOMAIN probes :
              /\ probes[i].st = "spawned"
              /\ checkQueueCalls'[Len(checkQueueCalls')].jobsIn = probes[i].needsQuery]_vars
    /\ [][Len(probes') < Len(probes) =>
            LET r == probeResult'
            IN /\ r.returned
               /\ \E i \in DOMAIN probes :
                    probes[i].st = "called" /\ r.jobsIn = probes[i].needsQuery
               /\ r.readOnly = readOnly
               /\ r.written = (IF readOnly THEN {} ELSE r.jobsIn \ r.queued)
               /\ r.written \cap r.queued = {}
               /\ notRunning' = notRunning \cup r.written]_vars

\* C28 witness: both nodes' job ids were submitted, checkQueue reported the
\* first as still queued, and only the second got the not-running failure.
C28_Witness ==
    /\ probeResult.returned
    /\ probeResult.jobsIn = Nodes
    /\ probeResult.queued = {1}
    /\ probeResult.written = {2}
    /\ notRunning = {2}

\* C29: RestartLocalJobs on a locked pipestance calls
\* restartLocallyQueuedJobs on every frontier node in state Running whatever
\* the job mode, and restartLocalJobs only on frontier nodes that are still
\* Running and local (job mode "local" or node marked local); nodes in
\* other states are untouched; the first call that fails ends the traversal
\* and its error is returned.
C29_RestartLocalJobs ==
    [][restartResult'.seq # restartResult.seq =>
         LET r == restartResult'
             made(kind) == {r.calls[i].node :
                              i \in {j \in DOMAIN r.calls : r.calls[j].kind = kind}}
             fails(c) == \/ c.kind = "queued" /\ c.node \in r.failQ
                         \/ c.kind = "local" /\ c.node \in r.failL
             running == {n \in frontier : state[n] = Running}
         IN IF readOnly
            THEN r.ret = "readonly" /\ r.calls = <<>>
                 /\ UNCHANGED <<state, meta, jobIds>>
            ELSE /\ r.ret \in {"nil", "error"}
                 /\ made("queued") \subseteq running
                 /\ made("local") \subseteq
                      {n \in running : state'[n] = Running
                                       /\ (r.mode = "local" \/ local[n])}
                 /\ \A i, j \in DOMAIN r.calls : r.calls[i] = r.calls[j] => i = j
                 /\ \A n \in Nodes \ running :
                      state'[n] = state[n] /\ meta'[n] = meta[n]
                 /\ r.ret = "nil" =>
                      /\ made("queued") = running
                      /\ \A i \in DOMAIN r.calls : ~fails(r.calls[i])
                      /\ \A n \in running :
                           (state'[n] = Running /\ (r.mode = "local" \/ local[n]))
                             => n \in made("local")
                 /\ r.ret = "error" =>
                      /\ r.calls # <<>>
                      /\ fails(r.calls[Len(r.calls)])
                      /\ \A i \in 1..(Len(r.calls) - 1) : ~fails(r.calls[i])
                      /\ \E k \in DOMAIN r.order :
                           /\ r.order[k] = r.calls[Len(r.calls)].node
                           /\ \A j \in DOMAIN r.order :
                                j > k => r.order[j] \notin made("queued")
                                                           \cup made("local")]_vars

\* C29 witness: cluster job mode, two Running frontier nodes of which only
\* the second is marked local; both got restartLocallyQueuedJobs, only the
\* second restartLocalJobs, and nil was returned.
C29_Witness ==
    /\ restartResult.ret = "nil"
    /\ restartResult.mode = "sge"
    /\ local = [n \in Nodes |-> n = 2]
    /\ restartResult.calls = <<[kind |-> "queued", node |-> 1],
                               [kind |-> "queued", node |-> 2],
                               [kind |-> "local", node |-> 2]>>

\* C31: while no Lock file exists, StepNodes returns false without a
\* refresh or a step, KillWithMessage and CheckHeartbeats do nothing (no
\* kill, no queue probe, no heartbeat check), LoadMetadata creates no
\* directory, and RestartRunningNodes, RestartLocalJobs, Reset and
\* Immortalize(false) return the read-only error with every node and file
\* as it was; Immortalize(true) alone goes on.
C31_ReadOnlyOperations ==
    [][~lockFile =>
         /\ StepNodes =>
              /\ stepResult'.kind = "readonly"
              /\ stepResult'.ret = FALSE
              /\ stepResult'.order = <<>> /\ stepResult'.events = <<>>
              /\ UNCHANGED <<state, meta, frontier, killed, jobs, jobIds>>
         /\ KillWithMessage =>
              UNCHANGED <<state, meta, frontier, killed, jobs, jobIds>>
         /\ (\E k \in Callers : CheckHeartbeats(k)) =>
              UNCHANGED <<state, meta, killed, jobs, jobIds, qpc, queueCheckActive,
                          probes, checkQueueCalls, notRunning>>
         /\ LoadMetadata =>
              /\ madeDirs' = {}
              /\ UNCHANGED <<meta, killed, jobs, jobIds>>
         /\ (\E jobMode \in JobModes : RestartRunningNodes(jobMode)) =>
              /\ resetResult'.ret = "readonly" /\ resetResult'.order = <<>>
              /\ madeDirs' = {}
              /\ UNCHANGED <<state, meta, frontier, killed, jobs, jobIds>>
         /\ (\E jobMode \in JobModes : RestartLocalJobs(jobMode)) =>
              /\ restartResult'.ret = "readonly" /\ restartResult'.calls = <<>>
              /\ UNCHANGED <<state, meta, frontier, killed, jobs, jobIds>>
         /\ Reset =>
              /\ resetResult'.ret = "readonly" /\ resetResult'.order = <<>>
              /\ UNCHANGED <<state, meta, frontier, killed, jobs, jobIds>>
         /\ Immortalize(FALSE) =>
              /\ immResult' = "readonly"
              /\ UNCHANGED <<psFiles, nodeFiles, artifactWrites, zipAttempts>>
         /\ Immortalize(TRUE) =>
              /\ immResult' \in {"nil", "error"}
              /\ artifactWrites'[Perf] >= artifactWrites[Perf]]_vars

\* C31 witness: an unlocked pipestance with a Running and a Failed node on
\* the frontier on which Reset, RestartLocalJobs, Immortalize(false) and
\* StepNodes were called: all were refused, and no node changed, was killed
\* or got a job.
C31_Witness ==
    /\ ~lockFile
    /\ stepResult.kind = "readonly"
    /\ resetResult.op = "Reset" /\ resetResult.ret = "readonly"
    /\ restartResult.ret = "readonly"
    /\ immResult = "readonly"
    /\ frontier = Nodes
    /\ state = meta
    /\ \E n \in frontier : state[n] = Running
    /\ \E n \in frontier : state[n] = Failed
    /\ killed = {} /\ jobs = 0

\* C32: on the Pipestance object of a controller that does not hold the
\* lock (its Lock call was refused, or it made none) while another
\* controller's Lock file exists, StepNodes, KillWithMessage, Reset and
\* RestartRunningNodes behave as in read-only mode: no step, kill, reset or
\* restart.
C32_OnlyLockHolderMutates ==
    [][(lockFile /\ lockStamp # caller /\ lockResult[caller] \in {"none", "locked"}) =>
         /\ StepNodes => stepResult'.kind = "readonly"
         /\ KillWithMessage => killed' = killed
         /\ Reset => resetResult'.ret = "readonly"
         /\ (\E jobMode \in JobModes : RestartRunningNodes(jobMode)) =>
              resetResult'.ret = "readonly"
         /\ (\/ StepNodes \/ KillWithMessage \/ Reset
             \/ \E jobMode \in JobModes : RestartRunningNodes(jobMode)) =>
              UNCHANGED <<meta, killed, jobs, jobIds>>]_vars

\* C33: include resolution ends for every include graph, with cycles and
\* with files included from several places: ParseSourceBytes returns (no
\* checkIncludes walk over the IncludedFrom lists goes on without end) and
\* no file is parsed twice.
C33_IncludeResolutionEnds ==
    phase = "done" =>
      /\ parseResult \in {"nil", "error"}
      /\ \A i, j \in DOMAIN parsed : parsed[i] = parsed[j] => i = j

\* C34: every queryQueue call that sets queueCheckActive is followed by
\* the flag being cleared: at once, with lastQueueCheck as it was, when no
\* job needs querying; else when the probe goroutine finishes, read-only or
\* not, which sets lastQueueCheck; and a later call on a locked pipestance
\* that finds the flag clear and the limit passed sets the flag again.
C34_ProbeFlagCleared ==
    /\ queueCheckActive ~> ~queueCheckActive
    /\ [][\A k \in Callers :
            (qpc[k] = "prep" /\ qpc'[k] # "prep"
               /\ {n \in frontier : meta[n] \in {Queued, Running} /\ n \in jobIds} = {})
              => (~queueCheckActive' /\ lastQueueCheck' = lastQueueCheck
                    /\ probes' = probes)]_vars
    /\ [][Len(probes') < Len(probes) =>
            (~queueCheckActive' /\ lastQueueCheck' = now)]_vars
    /\ [][\A k \in Callers :
            (CheckHeartbeats(k) /\ lockFile /\ hasQueueCheck /\ ~queueCheckActive
               /\ now - lastQueueCheck >= QUEUE_CHECK_LIMIT)
              => (queueCheckActive' /\ qpc'[k] = "prep")]_vars

\* C34 witness: a second probe has called checkQueue, at least the limit
\* after the first one, which ended on a pipestance that was locked.
C34_Witness ==
    /\ Len(checkQueueCalls) = 2
    /\ checkQueueCalls[2].t - checkQueueCalls[2].last >= QUEUE_CHECK_LIMIT
    /\ checkQueueCalls[2].last >= 0
    /\ lockFile

====
